---- MODULE Spec2Model ----
(***************************************************************************)
(* Model of js/indexedDbAccessor.js: the record-store accessor with its    *)
(* in-memory TTL cache, layered on a transactional object store; and of    *)
(* the page scripts beside it (canvas interaction, lazy image loading,     *)
(* the image processor).                                                   *)
(*                                                                         *)
(* Execution is single-threaded: every action below is one synchronous     *)
(* run of the program (a call up to its first suspension on the store, or  *)
(* one event handler with the promise continuations that follow it).       *)
(* Transactions on the object store run in creation order whenever their   *)
(* scopes overlap and one of them is read-write; read-only transactions    *)
(* may complete in any order.                                              *)
(*                                                                         *)
(* JavaScript values: a stored record is [id, v, UploadDate]; undefined    *)
(* and null are the records Undefined and Null.  UploadDate is the time    *)
(* value of a valid date (new Date(x) - new Date(y) is then x - y).        *)
(***************************************************************************)
EXTENDS Integers, Sequences, FiniteSets, TLC

VARIABLES
    version,           \* the version of the database, 0 when it does not exist
    objectStoreNames,  \* the object stores of the database
    indexNames,        \* the object stores that carry the UploadDate index
    store,             \* store[c]: the records of object store c, by key
    memoryCache,       \* Map: cache key -> [value, expires]
    populatedAt,       \* history: cache key -> Date.now() of the read that filled it
    dbConnection,      \* 0 (null) or the memoized connection
    openConns,         \* connections opened and not closed
    connSeq,           \* connections handed out so far
    opening,           \* operations waiting for their indexedDB.open request
    pending,           \* operations whose transaction exists, in creation order
    now,               \* Date.now()
    ticks,             \* clock advances so far
    objectUrls,        \* the object URLs created by URL.createObjectURL
    scale,             \* canvas: the zoom scale
    lastTouchDistance, \* canvas: the distance of the two touches last seen
    containerRect,     \* canvas: container.getBoundingClientRect()
    originalSize,      \* canvas: the canvas's width and height
    gestures,          \* canvas: the actions on the canvas so far
    dataSrc,           \* lazy loading: the data-src attribute of each image
    imgSrc,            \* lazy loading: the src of each image
    io,                \* lazy loading: whether the IntersectionObserver exists
    ioTargets,         \* lazy loading: the images the observer observes
    observerMap,       \* lazy loading: the keys of observerMap
    observeCalls,      \* history: the io.observe(img) calls made, by image
    lazyCalls,         \* lazy loading: the observe() calls so far
    intersected,       \* history: the images reported as intersecting
    processor,         \* image processor: the promises of the calls made
    last               \* what the last step did (call effects, settled result)

vars == <<version, objectStoreNames, indexNames, store, memoryCache, populatedAt,
          dbConnection, openConns, connSeq, opening, pending, now, ticks, objectUrls,
          scale, lastTouchDistance, containerRect, originalSize, gestures,
          dataSrc, imgSrc, io, ioTargets, observerMap, observeCalls, lazyCalls,
          intersected, processor, last>>

schemaVars == <<version, objectStoreNames, indexNames>>
connVars == <<dbConnection, openConns, connSeq>>
cacheVars == <<memoryCache, populatedAt>>
canvasVars == <<scale, lastTouchDistance, containerRect, originalSize, gestures>>
lazyVars == <<dataSrc, imgSrc, io, ioTargets, observerMap, observeCalls, lazyCalls,
             intersected>>
pageVars == <<canvasVars, lazyVars, processor>>
browserVars == <<now, ticks, objectUrls, pageVars>>
accessorVars == <<schemaVars, store, cacheVars, connVars, opening, pending,
                  now, ticks, objectUrls>>

---------------------------------------------------------------------------
(* Program constants *)

CACHE_TTL == 86400000

CACHE_ENABLED == TRUE

REQUIRED_STORES == <<"Mosaic", "MosaicTemplate", "IndexedDbFile", "ExternalPiece", "ImageData">>

(* Bounds of the model *)

MaxPending == 2
MaxTicks == 2
MaxOpens == 2
MaxSkip == 3
MaxTake == 3
MaxDate == 2
MaxUrls == 2
MaxGestures == 3
MaxImages == 2
MaxObserves == 2
MaxCalls == 2
MaxSizes == 2

---------------------------------------------------------------------------
(* Values *)

Undefined == [kind |-> "undefined"]
Null == [kind |-> "null"]

\* an ids argument that is not an array (its own marker: Array.isArray is false)
NotArray == <<"not an array">>

\* Array.isArray
IsArray(ids) == ids # NotArray

\* what a promise settles with, other than a record or undefined: true, a
\* number, an array, an error
True == [bool |-> TRUE]
False == [bool |-> FALSE]
Bool(b) == [bool |-> b]
Num(n) == [num |-> n]
Array(items) == [items |-> items]
Error(name) == [error |-> name]

Rec(id, v, d) == [id |-> id, v |-> v, UploadDate |-> d]

\* a Uint8Array
Bytes(n) == [bytes |-> n]

\* JavaScript truthiness of a value read from the store or passed to set
Truthy(x) == x # Undefined /\ x # Null

\* the characters of a collection name, as the template literal prints them
Text(collectionName) ==
    CASE collectionName = "Mosaic" -> <<"M", "o", "s", "a", "i", "c">>
      [] collectionName = "MosaicTemplate" ->
            <<"M", "o", "s", "a", "i", "c", "T", "e", "m", "p", "l", "a", "t", "e">>
      [] collectionName = "IndexedDbFile" ->
            <<"I", "n", "d", "e", "x", "e", "d", "D", "b", "F", "i", "l", "e">>
      [] collectionName = "ExternalPiece" ->
            <<"E", "x", "t", "e", "r", "n", "a", "l", "P", "i", "e", "c", "e">>
      [] collectionName = "ImageData" ->
            <<"I", "m", "a", "g", "e", "D", "a", "t", "a">>
      [] collectionName = "Nope" -> <<"N", "o", "p", "e">>
      [] OTHER -> << >>

\* the id that is the number 1 (a key of type number; "1" is the string)
Number1 == "number 1"

\* the characters of an id, as the template literal prints them
IdText(id) ==
    CASE id = "a" -> <<"a">>
      [] id = "1" -> <<"1">>
      [] id = Number1 -> <<"1">>
      [] id = "b" -> <<"b">>
      [] id = "c" -> <<"c">>
      [] OTHER -> << >>

\* primary-key order of the ids (numbers before strings, strings by code unit)
IdRank(id) ==
    CASE id = Number1 -> 1
      [] id = "1" -> 2
      [] id = "a" -> 3
      [] id = "b" -> 4
      [] id = "c" -> 5
      [] OTHER -> 0

AllIds == {"a", "b", "c"}
AllCollections == {"Mosaic", "MosaicTemplate", "IndexedDbFile", "ExternalPiece", "ImageData"}

\* `${collectionName}:${id}`
CacheKey(collectionName, id) == Text(collectionName) \o <<":">> \o IdText(id)

\* String.prototype.startsWith
StartsWith(key, prefix) ==
    /\ Len(key) >= Len(prefix)
    /\ SubSeq(key, 1, Len(prefix)) = prefix

\* Map.prototype.set
MapSet(m, k, x) == [y \in (DOMAIN m) \cup {k} |-> IF y = k THEN x ELSE m[y]]

\* Map.prototype.delete for every key of S
MapDelete(m, S) == [y \in (DOMAIN m) \ S |-> m[y]]

EmptyMap == [y \in {} |-> Undefined]

\* objectStore.get(id): the record under the key, or undefined
MapGet(m, k) == IF k \in DOMAIN m THEN m[k] ELSE Undefined

Remove(s, i) == SubSeq(s, 1, i - 1) \o SubSeq(s, i + 1, Len(s))

---------------------------------------------------------------------------
(* The TTL read cache *)

\* memoryCache.set(cacheKey, {value, expires: Date.now() + CACHE_TTL})
CacheEntry(value) == [value |-> value, expires |-> now + CACHE_TTL]

\* CacheHit with the expiry instant still counted as a hit
CacheHitAtExpiry(cacheKey) ==
    /\ CACHE_ENABLED
    /\ cacheKey \in DOMAIN memoryCache
    /\ memoryCache[cacheKey].expires >= now

\* cachedItem && cachedItem.expires > Date.now()
CacheHit(cacheKey) ==
    /\ CACHE_ENABLED
    /\ cacheKey \in DOMAIN memoryCache
    /\ memoryCache[cacheKey].expires > now

\* CachePut without the test of the result
CachePutAlways(cache, cacheKey, result) ==
    IF CACHE_ENABLED
    THEN MapSet(cache, cacheKey, CacheEntry(result))
    ELSE cache

\* if (CACHE_ENABLED && result) memoryCache.set(...)
CachePut(cache, cacheKey, result) ==
    IF CACHE_ENABLED /\ Truthy(result)
    THEN MapSet(cache, cacheKey, CacheEntry(result))
    ELSE cache

\* history of the same write: when the entry was filled, and with what
PopulatedPut(hist, cacheKey, result) ==
    IF CACHE_ENABLED /\ Truthy(result)
    THEN MapSet(hist, cacheKey, [at |-> now, value |-> result])
    ELSE hist

\* ClearedKeys with the prefix taken without its ":" separator
ClearedKeysByName(collectionName) ==
    IF collectionName = ""
    THEN DOMAIN memoryCache
    ELSE {k \in DOMAIN memoryCache : StartsWith(k, Text(collectionName))}

\* the keys clearCache(collectionName) deletes
ClearedKeys(collectionName) ==
    IF collectionName = ""
    THEN DOMAIN memoryCache
    ELSE {k \in DOMAIN memoryCache : StartsWith(k, Text(collectionName) \o <<":">>)}

\* clearCache(collectionName = null)
ClearCache(collectionName) ==
    /\ memoryCache' = MapDelete(memoryCache, ClearedKeys(collectionName))
    /\ populatedAt' = MapDelete(populatedAt, ClearedKeys(collectionName))
    /\ last' = [ev |-> "clearCache", c |-> collectionName,
                removed |-> Cardinality(ClearedKeys(collectionName))]
    /\ UNCHANGED <<schemaVars, store, connVars, opening, pending, browserVars>>

\* the clock advances by d milliseconds
Tick(d) ==
    /\ ticks < MaxTicks
    /\ now' = now + d
    /\ ticks' = ticks + 1
    /\ last' = [ev |-> "tick"]
    /\ UNCHANGED <<objectUrls, pageVars>>
    /\ UNCHANGED <<schemaVars, store, cacheVars, connVars, opening, pending>>

---------------------------------------------------------------------------
(* Operations in flight *)

\* what the last step did: an operation settled (the promise it returned resolved
\* or rejected, with a value), or a call or a request went by without settling one
Event(ev, o, outcome, value) ==
    IF ev = "settle"
    THEN [ev |-> ev, op |-> o, outcome |-> outcome, value |-> value]
    ELSE [ev |-> ev]

NoEvent == [ev |-> "none"]

\* the model holds at most MaxPending operations in flight
Room == Len(opening) + Len(pending) < MaxPending

\* the model hands out at most MaxOpens connections
OpenRoom == connSeq + Len(opening) < MaxOpens

\* db.transaction(collectionName, mode) throws for a store that does not exist
\* (NotFoundError) and on a closed connection (InvalidStateError)
TxnThrows(conns, db, collectionName) ==
    \/ collectionName \notin objectStoreNames
    \/ db \notin conns

\* two transactions exclude each other when their scopes overlap and one writes
Conflict(o1, o2) ==
    /\ o1.c = o2.c
    /\ (o1.mode = "readwrite" \/ o2.mode = "readwrite")

\* the transaction of pending[i] can run: no earlier live transaction excludes it
CanRun(i) == \A j \in 1..(i - 1) : ~Conflict(pending[j], pending[i])

\* getDatabase() with no memoized connection: indexedDB.open(DATABASE_NAME) is
\* requested and the operation waits for it
AwaitOpen(o) ==
    /\ Room
    /\ OpenRoom
    /\ opening' = Append(opening, o)
    /\ last' = Event("call", o, "pending", Undefined)
    /\ UNCHANGED <<pending, cacheVars>>

\* an operation whose promise executor creates the transaction and issues one
\* request; a throw in the executor rejects the promise the operation returns
BeginRequest(o, conns, db) ==
    IF TxnThrows(conns, db, o.c)
    THEN /\ last' = Event("settle", o, "rejected", Error("NotFoundError"))
         /\ UNCHANGED <<pending, cacheVars>>
    ELSE /\ pending' = Append(pending, o)
         /\ last' = Event("call", o, "pending", Undefined)
         /\ UNCHANGED cacheVars

---------------------------------------------------------------------------
(* set *)

\* acked: the put request has succeeded (its transaction is still live)
SetOp(collectionName, value) ==
    [name |-> "set", c |-> collectionName, value |-> value, mode |-> "readwrite",
     acked |-> FALSE]

\* set(collectionName, value) up to its first suspension
SetCall(collectionName, value) ==
    LET o == SetOp(collectionName, value) IN
    /\ IF ~Truthy(value) \/ collectionName = ""
       THEN /\ last' = Event("settle", o, "rejected", Error("Missing value or collection name"))
            /\ UNCHANGED <<opening, pending, cacheVars>>
       ELSE IF value.id = ""
       THEN /\ last' = Event("settle", o, "rejected", Error("Value must have an id property"))
            /\ UNCHANGED <<opening, pending, cacheVars>>
       ELSE IF dbConnection # 0
       THEN /\ TxnThrows(openConns, dbConnection, collectionName) \/ Room
            /\ BeginRequest(o, openConns, dbConnection)
            /\ UNCHANGED opening
       ELSE AwaitOpen(o)
    /\ UNCHANGED <<schemaVars, store, connVars, browserVars>>

\* SetPut with request.onsuccess resolving true
SetPutResolves(i, outcome) ==
    /\ i \in 1..Len(pending)
    /\ pending[i].name = "set"
    /\ ~pending[i].acked
    /\ CanRun(i)
    /\ LET o == pending[i] IN
       IF outcome = "success"
       THEN /\ pending' = [pending EXCEPT ![i] = [o EXCEPT !.acked = TRUE]]
            /\ last' = Event("settle", o, "resolved", True)
       ELSE /\ pending' = Remove(pending, i)
            /\ last' = Event("settle", o, "rejected", Error("RequestError"))
    /\ UNCHANGED <<schemaVars, store, cacheVars, connVars, opening, browserVars>>

\* the put request of a set ends: request.onsuccess only logs; an error is logged
\* by request.onerror, bubbles to transaction.onerror, which rejects, and aborts
\* the transaction
SetPut(i, outcome) ==
    /\ i \in 1..Len(pending)
    /\ pending[i].name = "set"
    /\ ~pending[i].acked
    /\ CanRun(i)
    /\ LET o == pending[i] IN
       IF outcome = "success"
       THEN /\ pending' = [pending EXCEPT ![i] = [o EXCEPT !.acked = TRUE]]
            /\ last' = Event("request", o, "pending", Undefined)
       ELSE /\ pending' = Remove(pending, i)
            /\ last' = Event("settle", o, "rejected", Error("RequestError"))
    /\ UNCHANGED <<schemaVars, store, cacheVars, connVars, opening, browserVars>>

\* the read-write transaction of a set ends: it commits and oncomplete resolves
\* true, or the commit fails and the transaction aborts (an abort event, for which
\* set has no handler: the promise stays unsettled)
SetSettle(i, outcome) ==
    /\ i \in 1..Len(pending)
    /\ pending[i].name = "set"
    /\ pending[i].acked
    /\ CanRun(i)
    /\ LET o == pending[i] IN
       IF outcome = "success"
       THEN /\ store' = [store EXCEPT ![o.c] = MapSet(@, o.value.id, o.value)]
            /\ last' = Event("settle", o, "resolved", True)
       ELSE /\ store' = store
            /\ last' = Event("abort", o, "pending", Undefined)
    /\ pending' = Remove(pending, i)
    /\ UNCHANGED <<schemaVars, cacheVars, connVars, opening, browserVars>>

---------------------------------------------------------------------------
(* get *)

\* an operation in flight that writes the record (collectionName, id)
WritesKey(o, collectionName, id) ==
    /\ o.mode = "readwrite"
    /\ o.c = collectionName
    /\ IF o.name \in {"set", "setImageBlob"} THEN o.value.id = id
       ELSE IF o.name = "copyIndexedDbFile" THEN o.destId = id
       ELSE o.id = id

\* history: the record a set on the same key resolved with in the step before,
\* when no other write of that key is in flight (else Null)
JustWritten(collectionName, id) ==
    IF /\ last.ev = "settle"
       /\ last.op.name = "set"
       /\ last.outcome = "resolved"
       /\ last.op.c = collectionName
       /\ last.op.value.id = id
       /\ \A j \in 1..Len(pending) : ~WritesKey(pending[j], collectionName, id)
       /\ \A j \in 1..Len(opening) : ~WritesKey(opening[j], collectionName, id)
    THEN last.op.value
    ELSE Null

GetOp(collectionName, id) ==
    [name |-> "get", c |-> collectionName, id |-> id, mode |-> "readonly",
     after |-> JustWritten(collectionName, id)]

\* GetCall with a hit that renews the expiry of the entry
GetCallSliding(collectionName, id) ==
    LET o == GetOp(collectionName, id)
        cacheKey == CacheKey(collectionName, id)
    IN
    /\ IF collectionName = "" \/ id = ""
       THEN /\ last' = Event("settle", o, "rejected", Error("Missing collection name or id"))
            /\ UNCHANGED <<opening, pending, cacheVars>>
       ELSE IF CacheHit(cacheKey)
       THEN /\ last' = Event("settle", o, "resolved", memoryCache[cacheKey].value)
            /\ memoryCache' = MapSet(memoryCache, cacheKey,
                                     CacheEntry(memoryCache[cacheKey].value))
            /\ UNCHANGED <<opening, pending, populatedAt>>
       ELSE IF dbConnection # 0
       THEN /\ TxnThrows(openConns, dbConnection, collectionName) \/ Room
            /\ BeginRequest(o, openConns, dbConnection)
            /\ UNCHANGED opening
       ELSE AwaitOpen(o)
    /\ UNCHANGED <<schemaVars, store, connVars, browserVars>>

\* get(collectionName, id) up to its first suspension; id "" stands for undefined
GetCall(collectionName, id) ==
    LET o == GetOp(collectionName, id)
        cacheKey == CacheKey(collectionName, id)
    IN
    /\ IF collectionName = "" \/ id = ""
       THEN /\ last' = Event("settle", o, "rejected", Error("Missing collection name or id"))
            /\ UNCHANGED <<opening, pending, cacheVars>>
       ELSE IF CacheHit(cacheKey)
       THEN /\ last' = Event("settle", o, "resolved", memoryCache[cacheKey].value)
            /\ UNCHANGED <<opening, pending, cacheVars>>
       ELSE IF dbConnection # 0
       THEN /\ TxnThrows(openConns, dbConnection, collectionName) \/ Room
            /\ BeginRequest(o, openConns, dbConnection)
            /\ UNCHANGED opening
       ELSE AwaitOpen(o)
    /\ UNCHANGED <<schemaVars, store, connVars, browserVars>>

\* the store.get request of a get ends: onsuccess resolves request.result, which is
\* cached when truthy; onerror rejects
GetSettle(i, outcome) ==
    /\ i \in 1..Len(pending)
    /\ pending[i].name = "get"
    /\ CanRun(i)
    /\ LET o == pending[i]
           result == MapGet(store[o.c], o.id)
           cacheKey == CacheKey(o.c, o.id)
       IN
       IF outcome = "success"
       THEN /\ memoryCache' = CachePut(memoryCache, cacheKey, result)
            /\ populatedAt' = PopulatedPut(populatedAt, cacheKey, result)
            /\ last' = Event("settle", o, "resolved", result)
       ELSE /\ UNCHANGED cacheVars
            /\ last' = Event("settle", o, "rejected", Error("RequestError"))
    /\ pending' = Remove(pending, i)
    /\ UNCHANGED <<schemaVars, store, connVars, opening, browserVars>>

---------------------------------------------------------------------------
(* deleteRecord *)

\* done: the delete request has succeeded (its transaction is still live)
DeleteOp(collectionName, id) ==
    [name |-> "deleteRecord", c |-> collectionName, id |-> id, mode |-> "readwrite",
     done |-> FALSE]

\* deleteRecord(collectionName, id) up to its first suspension
DeleteCall(collectionName, id) ==
    LET o == DeleteOp(collectionName, id) IN
    /\ IF dbConnection # 0
       THEN /\ TxnThrows(openConns, dbConnection, collectionName) \/ Room
            /\ BeginRequest(o, openConns, dbConnection)
            /\ UNCHANGED opening
       ELSE AwaitOpen(o)
    /\ UNCHANGED <<schemaVars, store, connVars, browserVars>>

\* DeleteSettle evicting the cache entry of the deleted key
DeleteSettleEvicts(i, outcome) ==
    /\ i \in 1..Len(pending)
    /\ pending[i].name = "deleteRecord"
    /\ ~pending[i].done
    /\ CanRun(i)
    /\ LET o == pending[i] IN
       IF outcome = "success"
       THEN /\ pending' = [pending EXCEPT ![i] = [o EXCEPT !.done = TRUE]]
            /\ memoryCache' = MapDelete(memoryCache, {CacheKey(o.c, o.id)})
            /\ populatedAt' = MapDelete(populatedAt, {CacheKey(o.c, o.id)})
            /\ last' = Event("settle", o, "resolved", True)
       ELSE /\ pending' = Remove(pending, i)
            /\ UNCHANGED cacheVars
            /\ last' = Event("settle", o, "rejected", Error("RequestError"))
    /\ UNCHANGED <<schemaVars, store, connVars, opening, browserVars>>

\* the delete request ends: onsuccess resolves true while the transaction is
\* still live; onerror rejects, and the transaction aborts
DeleteSettle(i, outcome) ==
    /\ i \in 1..Len(pending)
    /\ pending[i].name = "deleteRecord"
    /\ ~pending[i].done
    /\ CanRun(i)
    /\ LET o == pending[i] IN
       IF outcome = "success"
       THEN /\ pending' = [pending EXCEPT ![i] = [o EXCEPT !.done = TRUE]]
            /\ last' = Event("settle", o, "resolved", True)
       ELSE /\ pending' = Remove(pending, i)
            /\ last' = Event("settle", o, "rejected", Error("RequestError"))
    /\ UNCHANGED <<schemaVars, store, cacheVars, connVars, opening, browserVars>>

\* the read-write transaction of a deleteRecord ends: it commits, or the commit
\* fails and the transaction aborts, leaving the record in place
DeleteComplete(i, outcome) ==
    /\ i \in 1..Len(pending)
    /\ pending[i].name = "deleteRecord"
    /\ pending[i].done
    /\ CanRun(i)
    /\ LET o == pending[i] IN
       IF outcome = "success"
       THEN /\ store' = [store EXCEPT ![o.c] = MapDelete(@, {o.id})]
            /\ last' = Event("complete", o, "pending", Undefined)
       ELSE /\ store' = store
            /\ last' = Event("abort", o, "pending", Undefined)
    /\ pending' = Remove(pending, i)
    /\ UNCHANGED <<schemaVars, cacheVars, connVars, opening, browserVars>>

---------------------------------------------------------------------------
(* setImageBlob *)

\* done: the put request has succeeded (its transaction is still live)
SetImageBlobOp(id, uint8Array) ==
    [name |-> "setImageBlob", c |-> "IndexedDbFile", mode |-> "readwrite",
     value |-> [id |-> id, blob |-> uint8Array, mimeType |-> "image/webp"],
     done |-> FALSE]

\* SetImageBlobCall with only the id required
SetImageBlobCallIdOnly(id, uint8Array) ==
    LET o == SetImageBlobOp(id, uint8Array) IN
    /\ IF id = ""
       THEN /\ last' = Event("settle", o, "rejected", Error("setImageBlob requires id and data"))
            /\ UNCHANGED <<opening, pending, cacheVars>>
       ELSE IF dbConnection # 0
       THEN /\ TxnThrows(openConns, dbConnection, o.c) \/ Room
            /\ BeginRequest(o, openConns, dbConnection)
            /\ UNCHANGED opening
       ELSE AwaitOpen(o)
    /\ UNCHANGED <<schemaVars, store, connVars, browserVars>>

\* setImageBlob(id, uint8Array) up to its first suspension; id "" stands for a
\* missing id
SetImageBlobCall(id, uint8Array) ==
    LET o == SetImageBlobOp(id, uint8Array) IN
    /\ IF id = "" \/ ~Truthy(uint8Array)
       THEN /\ last' = Event("settle", o, "rejected", Error("setImageBlob requires id and data"))
            /\ UNCHANGED <<opening, pending, cacheVars>>
       ELSE IF dbConnection # 0
       THEN /\ TxnThrows(openConns, dbConnection, o.c) \/ Room
            /\ BeginRequest(o, openConns, dbConnection)
            /\ UNCHANGED opening
       ELSE AwaitOpen(o)
    /\ UNCHANGED <<schemaVars, store, connVars, browserVars>>

\* the put request of a setImageBlob ends: onsuccess resolves true while the
\* transaction is still live; onerror rejects, and the transaction aborts
SetImageBlobSettle(i, outcome) ==
    /\ i \in 1..Len(pending)
    /\ pending[i].name = "setImageBlob"
    /\ ~pending[i].done
    /\ CanRun(i)
    /\ LET o == pending[i] IN
       IF outcome = "success"
       THEN /\ pending' = [pending EXCEPT ![i] = [o EXCEPT !.done = TRUE]]
            /\ last' = Event("settle", o, "resolved", True)
       ELSE /\ pending' = Remove(pending, i)
            /\ last' = Event("settle", o, "rejected", Error("RequestError"))
    /\ UNCHANGED <<schemaVars, store, cacheVars, connVars, opening, browserVars>>

\* the read-write transaction of a setImageBlob ends: it commits, or the commit
\* fails and the transaction aborts
SetImageBlobComplete(i, outcome) ==
    /\ i \in 1..Len(pending)
    /\ pending[i].name = "setImageBlob"
    /\ pending[i].done
    /\ CanRun(i)
    /\ LET o == pending[i] IN
       IF outcome = "success"
       THEN /\ store' = [store EXCEPT ![o.c] = MapSet(@, o.value.id, o.value)]
            /\ last' = Event("complete", o, "pending", Undefined)
       ELSE /\ store' = store
            /\ last' = Event("abort", o, "pending", Undefined)
    /\ pending' = Remove(pending, i)
    /\ UNCHANGED <<schemaVars, cacheVars, connVars, opening, browserVars>>

---------------------------------------------------------------------------
(* hasRecord *)

\* HasKey answered from the cache when the cache holds the key
HasKeyCached(collectionName, id) ==
    \/ CacheHit(CacheKey(collectionName, id))
    \/ id \in DOMAIN store[collectionName]

\* store.getKey(id): req.result !== undefined && req.result !== null
HasKey(collectionName, id) == id \in DOMAIN store[collectionName]

\* history: a deleteRecord of the same key resolved in the step before, and no
\* write of that key other than this delete is in flight
JustDeleted(collectionName, id) ==
    /\ last.ev = "settle"
    /\ last.op.name = "deleteRecord"
    /\ last.outcome = "resolved"
    /\ last.op.c = collectionName
    /\ last.op.id = id
    /\ \A j \in 1..Len(pending) :
          WritesKey(pending[j], collectionName, id) =>
             (pending[j].name = "deleteRecord" /\ pending[j].done)
    /\ \A j \in 1..Len(opening) : ~WritesKey(opening[j], collectionName, id)

\* history: what the writes resolved so far make of the key when hasRecord is
\* called: true right after a set, false right after a deleteRecord, the store's
\* content when no write of the key is in flight (else Null: not determined)
ExpectedHas(collectionName, id) ==
    IF JustWritten(collectionName, id) # Null THEN True
    ELSE IF JustDeleted(collectionName, id) THEN False
    ELSE IF /\ \A j \in 1..Len(pending) : ~WritesKey(pending[j], collectionName, id)
            /\ \A j \in 1..Len(opening) : ~WritesKey(opening[j], collectionName, id)
         THEN Bool(id \in DOMAIN store[collectionName])
         ELSE Null

HasRecordOp(collectionName, id) ==
    [name |-> "hasRecord", c |-> collectionName, id |-> id, mode |-> "readonly",
     expect |-> ExpectedHas(collectionName, id)]

\* hasRecord(collectionName, id) up to its first suspension
HasRecordCall(collectionName, id) ==
    LET o == HasRecordOp(collectionName, id) IN
    /\ IF dbConnection # 0
       THEN /\ TxnThrows(openConns, dbConnection, collectionName) \/ Room
            /\ BeginRequest(o, openConns, dbConnection)
            /\ UNCHANGED opening
       ELSE AwaitOpen(o)
    /\ UNCHANGED <<schemaVars, store, connVars, browserVars>>

\* the getKey request ends: onsuccess resolves whether a key came back, onerror
\* rejects
HasRecordSettle(i, outcome) ==
    /\ i \in 1..Len(pending)
    /\ pending[i].name = "hasRecord"
    /\ CanRun(i)
    /\ LET o == pending[i] IN
       IF outcome = "success"
       THEN last' = Event("settle", o, "resolved", Bool(HasKey(o.c, o.id)))
       ELSE last' = Event("settle", o, "rejected", Error("RequestError"))
    /\ pending' = Remove(pending, i)
    /\ UNCHANGED <<schemaVars, store, cacheVars, connVars, opening, browserVars>>

---------------------------------------------------------------------------
(* getBulk *)

\* the ids of a request that are unexpired cache hits, in request order
HitIds(collectionName, ids) ==
    SelectSeq(ids, LAMBDA id : CacheHit(CacheKey(collectionName, id)))

\* results: the cached value of every hit, in request order
BulkResults(collectionName, ids) ==
    LET hits == HitIds(collectionName, ids) IN
    [k \in 1..Len(hits) |-> memoryCache[CacheKey(collectionName, hits[k])].value]

\* BulkMissingIds with each missed id put in front of the earlier ones
BulkMissingIdsUnshift(collectionName, ids) ==
    LET missed == SelectSeq(ids, LAMBDA id : ~CacheHit(CacheKey(collectionName, id)))
    IN [k \in 1..Len(missed) |-> missed[Len(missed) + 1 - k]]

\* missingIds: the ids that are not hits, in request order
BulkMissingIds(collectionName, ids) ==
    SelectSeq(ids, LAMBDA id : ~CacheHit(CacheKey(collectionName, id)))

\* hits (history): the cached values of the ids that are unexpired hits when
\* getBulk is called
GetBulkOp(collectionName, ids) ==
    [name |-> "getBulk", c |-> collectionName, ids |-> ids, mode |-> "readonly",
     hits |-> IF IsArray(ids) THEN BulkResults(collectionName, ids) ELSE << >>]

\* dbResults.filter(item => item !== null)
FilterNotNull(dbResults) == SelectSeq(dbResults, LAMBDA item : item # Null)

\* the result slot of a sub-fetch whose promise is not resolved yet
Unsettled == [kind |-> "unsettled"]

\* getBulk after getDatabase() has returned db: the cache partition, then one
\* transaction with one store.get per missing id; a throw is caught and yields []
GetBulkBegin(o, conns, db) ==
    LET results == BulkResults(o.c, o.ids)
        missingIds == BulkMissingIds(o.c, o.ids)
    IN
    IF missingIds = << >>
    THEN /\ last' = Event("settle", o, "resolved", Array(results))
         /\ UNCHANGED <<pending, cacheVars>>
    ELSE IF TxnThrows(conns, db, o.c)
    THEN /\ last' = Event("settle", o, "resolved", Array(<< >>))
         /\ UNCHANGED <<pending, cacheVars>>
    ELSE /\ pending' = Append(pending,
                [name |-> "getBulk", c |-> o.c, ids |-> o.ids, mode |-> "readonly",
                 hits |-> o.hits,
                 results |-> results, missingIds |-> missingIds,
                 dbResults |-> [k \in 1..Len(missingIds) |-> Unsettled],
                 failed |-> FALSE])
         /\ last' = Event("call", o, "pending", Undefined)
         /\ UNCHANGED cacheVars

\* GetBulkCall with the early return taken for a non-array only
GetBulkCallEmptyGoesOn(collectionName, ids) ==
    LET o == GetBulkOp(collectionName, ids) IN
    /\ IF ~IsArray(ids)
       THEN /\ last' = Event("settle", o, "resolved", Array(<< >>))
            /\ UNCHANGED <<opening, pending, cacheVars>>
       ELSE IF dbConnection # 0
       THEN /\ \/ BulkMissingIds(collectionName, ids) = << >>
               \/ TxnThrows(openConns, dbConnection, collectionName)
               \/ Room
            /\ GetBulkBegin(o, openConns, dbConnection)
            /\ UNCHANGED opening
       ELSE AwaitOpen(o)
    /\ UNCHANGED <<schemaVars, store, connVars, browserVars>>

\* getBulk(collectionName, ids) up to its first suspension on the store
GetBulkCall(collectionName, ids) ==
    LET o == GetBulkOp(collectionName, ids) IN
    /\ IF ~IsArray(ids) \/ Len(ids) = 0
       THEN /\ last' = Event("settle", o, "resolved", Array(<< >>))
            /\ UNCHANGED <<opening, pending, cacheVars>>
       ELSE IF dbConnection # 0
       THEN /\ \/ BulkMissingIds(collectionName, ids) = << >>
               \/ TxnThrows(openConns, dbConnection, collectionName)
               \/ Room
            /\ GetBulkBegin(o, openConns, dbConnection)
            /\ UNCHANGED opening
       ELSE AwaitOpen(o)
    /\ UNCHANGED <<schemaVars, store, connVars, browserVars>>

\* the store.get request of missingIds[k] of a getBulk ends: onsuccess caches a
\* truthy result and resolves the k-th promise with it, onerror resolves it with
\* null (an uncancelled request error aborts the transaction, so the requests
\* still outstanding fail too); Promise.all keeps each result at the index of its
\* promise, and once all are resolved getBulk returns
\* [...results, ...dbResults.filter(item => item !== null)]
GetBulkRequestAt(i, k, outcome) ==
    /\ i \in 1..Len(pending)
    /\ pending[i].name = "getBulk"
    /\ k \in 1..Len(pending[i].missingIds)
    /\ pending[i].dbResults[k] = Unsettled
    /\ pending[i].failed => outcome = "error"
    /\ CanRun(i)
    /\ LET o == pending[i]
           id == o.missingIds[k]
           ok == outcome = "success"
           result == IF ok THEN MapGet(store[o.c], id) ELSE Null
           dbResults == [o.dbResults EXCEPT ![k] = result]
           cacheKey == CacheKey(o.c, id)
       IN
       /\ memoryCache' = IF ok THEN CachePut(memoryCache, cacheKey, result) ELSE memoryCache
       /\ populatedAt' = IF ok THEN PopulatedPut(populatedAt, cacheKey, result) ELSE populatedAt
       /\ IF \A j \in 1..Len(dbResults) : dbResults[j] # Unsettled
          THEN /\ pending' = Remove(pending, i)
               /\ last' = Event("settle", o, "resolved",
                                Array(o.results \o FilterNotNull(dbResults)))
          ELSE /\ pending' = [pending EXCEPT ![i] =
                                 [o EXCEPT !.dbResults = dbResults,
                                           !.failed = o.failed \/ ~ok]]
               /\ last' = Event("request", o, "pending", result)
    /\ UNCHANGED <<schemaVars, store, connVars, opening, browserVars>>

\* the request of a getBulk that ends next: the requests of one transaction end in
\* the order in which they were made
NextFetch(o) ==
    CHOOSE k \in 1..Len(o.missingIds) :
        /\ o.dbResults[k] = Unsettled
        /\ \A j \in 1..(k - 1) : o.dbResults[j] # Unsettled

\* the next store.get request of a getBulk ends
GetBulkRequest(i, outcome) ==
    /\ i \in 1..Len(pending)
    /\ pending[i].name = "getBulk"
    /\ GetBulkRequestAt(i, NextFetch(pending[i]), outcome)

---------------------------------------------------------------------------
(* count *)

CountOp(collectionName) ==
    [name |-> "count", c |-> collectionName, mode |-> "readonly"]

\* count(collectionName) up to its first suspension
CountCall(collectionName) ==
    LET o == CountOp(collectionName) IN
    /\ IF dbConnection # 0
       THEN /\ TxnThrows(openConns, dbConnection, collectionName) \/ Room
            /\ BeginRequest(o, openConns, dbConnection)
            /\ UNCHANGED opening
       ELSE AwaitOpen(o)
    /\ UNCHANGED <<schemaVars, store, connVars, browserVars>>

\* the records of a collection
Records(collectionName) ==
    {store[collectionName][id] : id \in DOMAIN store[collectionName]}

\* the count request ends: onsuccess resolves countRequest.result; onerror, and
\* transaction.onerror after it, reject
CountSettle(i, outcome) ==
    /\ i \in 1..Len(pending)
    /\ pending[i].name = "count"
    /\ CanRun(i)
    /\ LET o == pending[i] IN
       IF outcome = "success"
       THEN last' = Event("settle", o, "resolved", Num(Cardinality(Records(o.c))))
       ELSE last' = Event("settle", o, "rejected", Error("RequestError"))
    /\ pending' = Remove(pending, i)
    /\ UNCHANGED <<schemaVars, store, cacheVars, connVars, opening, browserVars>>

---------------------------------------------------------------------------
(* Cursors *)

\* the ids in primary-key order
KeyOrder == <<Number1, "1", "a", "b", "c">>

\* store.openCursor(): the records of a collection in primary-key order
KeyCursor(collectionName) ==
    LET ids == SelectSeq(KeyOrder, LAMBDA id : id \in DOMAIN store[collectionName])
    IN [k \in 1..Len(ids) |-> store[collectionName][ids[k]]]

\* index order: by UploadDate, then by primary key
IndexBefore(r1, r2) ==
    \/ r1.UploadDate < r2.UploadDate
    \/ r1.UploadDate = r2.UploadDate /\ IdRank(r1.id) < IdRank(r2.id)

\* index.openCursor(null, "prev"): the records in descending index order
IndexCursorPrev(collectionName) ==
    LET recs == Records(collectionName)
        n == Cardinality(recs)
    IN [k \in 1..n |->
          CHOOSE r \in recs : Cardinality({q \in recs : IndexBefore(r, q)}) = k - 1]

RECURSIVE InsertByDateDesc(_, _)
\* x placed after every element the comparator does not order behind it
InsertByDateDesc(sorted, x) ==
    IF sorted = << >> THEN <<x>>
    ELSE IF sorted[Len(sorted)].UploadDate - x.UploadDate >= 0
         THEN Append(sorted, x)
         ELSE Append(InsertByDateDesc(SubSeq(sorted, 1, Len(sorted) - 1), x),
                     sorted[Len(sorted)])

RECURSIVE SortByDateDesc(_)
\* items.sort((a, b) => new Date(b.UploadDate) - new Date(a.UploadDate)): stable
SortByDateDesc(items) ==
    IF items = << >> THEN << >>
    ELSE InsertByDateDesc(SortByDateDesc(SubSeq(items, 1, Len(items) - 1)),
                          items[Len(items)])

\* Array.prototype.slice(0, n)
Slice(items, n) == SubSeq(items, 1, IF n < Len(items) THEN n ELSE Len(items))

RECURSIVE RangeCursorOneMore(_, _, _, _, _, _)
\* RangeCursor with the take test off by one
RangeCursorOneMore(source, pos, skipped, items, skip, take) ==
    IF pos > Len(source) THEN items
    ELSE IF ~skipped /\ skip > 0
         THEN RangeCursorOneMore(source, pos + skip, TRUE, items, skip, take)
    ELSE IF Len(items) <= take
         THEN RangeCursorOneMore(source, pos + 1, skipped, Append(items, source[pos]),
                                 skip, take)
    ELSE items

RECURSIVE RangeCursor(_, _, _, _, _, _)
\* cursorRequest.onsuccess of getRange with the cursor at position pos of source
\* (past the end: no cursor), run until the promise resolves
RangeCursor(source, pos, skipped, items, skip, take) ==
    IF pos > Len(source) THEN items
    ELSE IF ~skipped /\ skip > 0
         THEN RangeCursor(source, pos + skip, TRUE, items, skip, take)
    ELSE IF Len(items) < take
         THEN RangeCursor(source, pos + 1, skipped, Append(items, source[pos]), skip, take)
    ELSE items

RECURSIVE PagedCursor(_, _, _, _, _, _, _)
\* cursorSource.onsuccess of getAllPagedByDate with the cursor at position pos of
\* source, run until the promise resolves
PagedCursor(source, index, pos, skipped, items, skip, take) ==
    IF pos <= Len(source)
    THEN IF ~skipped /\ skip > 0
         THEN PagedCursor(source, index, pos + skip, TRUE, items, skip, take)
         ELSE IF Len(items) + 1 >= take
              THEN Append(items, source[pos])
              ELSE PagedCursor(source, index, pos + 1, skipped,
                               Append(items, source[pos]), skip, take)
    ELSE Slice(IF ~index THEN SortByDateDesc(items) ELSE items, take)

---------------------------------------------------------------------------
(* getRange *)

GetRangeOp(collectionName, skip, take) ==
    [name |-> "getRange", c |-> collectionName, skip |-> skip, take |-> take,
     mode |-> "readonly"]

\* getRange(collectionName, skip, take) up to its first suspension
GetRangeCall(collectionName, skip, take) ==
    LET o == GetRangeOp(collectionName, skip, take) IN
    /\ IF dbConnection # 0
       THEN /\ TxnThrows(openConns, dbConnection, collectionName) \/ Room
            /\ BeginRequest(o, openConns, dbConnection)
            /\ UNCHANGED opening
       ELSE AwaitOpen(o)
    /\ UNCHANGED <<schemaVars, store, connVars, browserVars>>

\* the cursor of a getRange runs to the end of its scan, or fails
GetRangeSettle(i, outcome) ==
    /\ i \in 1..Len(pending)
    /\ pending[i].name = "getRange"
    /\ CanRun(i)
    /\ LET o == pending[i] IN
       IF outcome = "success"
       THEN last' = Event("settle", o, "resolved",
                          Array(RangeCursor(KeyCursor(o.c), 1, FALSE, << >>, o.skip, o.take)))
       ELSE last' = Event("settle", o, "rejected", Error("RequestError"))
    /\ pending' = Remove(pending, i)
    /\ UNCHANGED <<schemaVars, store, cacheVars, connVars, opening, browserVars>>

---------------------------------------------------------------------------
(* getAllPagedByDate *)

GetAllPagedByDateOp(collectionName, skip, take) ==
    [name |-> "getAllPagedByDate", c |-> collectionName, skip |-> skip, take |-> take,
     mode |-> "readonly"]

\* getAllPagedByDate(collectionName, skip, take) up to its first suspension
GetAllPagedByDateCall(collectionName, skip, take) ==
    LET o == GetAllPagedByDateOp(collectionName, skip, take) IN
    /\ IF dbConnection # 0
       THEN /\ TxnThrows(openConns, dbConnection, collectionName) \/ Room
            /\ BeginRequest(o, openConns, dbConnection)
            /\ UNCHANGED opening
       ELSE AwaitOpen(o)
    /\ UNCHANGED <<schemaVars, store, connVars, browserVars>>

\* the result of a getAllPagedByDate scan of the collection as it is now:
\* collection.index("UploadDate") throws when the index is missing, and the
\* scan then runs on collection.openCursor()
PagedResult(collectionName, skip, take) ==
    LET index == collectionName \in indexNames
        source == IF index THEN IndexCursorPrev(collectionName)
                           ELSE KeyCursor(collectionName)
    IN PagedCursor(source, index, 1, FALSE, << >>, skip, take)

\* the cursor of a getAllPagedByDate runs to the end of its scan, or fails
GetAllPagedByDateSettle(i, outcome) ==
    /\ i \in 1..Len(pending)
    /\ pending[i].name = "getAllPagedByDate"
    /\ CanRun(i)
    /\ LET o == pending[i] IN
       IF outcome = "success"
       THEN last' = Event("settle", o, "resolved",
                          Array(PagedResult(o.c, o.skip, o.take)))
       ELSE last' = Event("settle", o, "rejected", Error("RequestError"))
    /\ pending' = Remove(pending, i)
    /\ UNCHANGED <<schemaVars, store, cacheVars, connVars, opening, browserVars>>

---------------------------------------------------------------------------
(* getImageObjectUrl *)

\* rec.blob, rec.mimeType: a property the record does not have reads undefined
Field(rec, name) == IF name \in DOMAIN rec THEN rec[name] ELSE Undefined

\* the negation of (!rec || !rec.blob)
HasBlob(rec) == Truthy(rec) /\ Truthy(Field(rec, "blob"))

\* the string URL.createObjectURL returns
Url(n) == [url |-> n]

\* the model creates at most MaxUrls object URLs
UrlRoom ==
    Cardinality(objectUrls)
      + Cardinality({j \in 1..Len(pending) : pending[j].name = "getImageObjectUrl"})
      + Cardinality({j \in 1..Len(opening) : opening[j].name = "getImageObjectUrl"})
    < MaxUrls

GetImageObjectUrlOp(id) ==
    [name |-> "getImageObjectUrl", c |-> "IndexedDbFile", id |-> id, mode |-> "readonly"]

\* getImageObjectUrl(id) up to its first suspension; id "" stands for a falsy id
GetImageObjectUrlCall(id) ==
    LET o == GetImageObjectUrlOp(id) IN
    /\ IF id = ""
       THEN /\ last' = Event("settle", o, "resolved", Null)
            /\ UNCHANGED <<opening, pending, cacheVars>>
       ELSE /\ UrlRoom
            /\ IF dbConnection # 0
               THEN /\ TxnThrows(openConns, dbConnection, o.c) \/ Room
                    /\ BeginRequest(o, openConns, dbConnection)
                    /\ UNCHANGED opening
               ELSE AwaitOpen(o)
    /\ UNCHANGED <<schemaVars, store, connVars, browserVars>>

\* GetImageObjectUrlSettle making a URL of whatever rec.blob is
GetImageObjectUrlSettleAnyRecord(i, outcome) ==
    /\ i \in 1..Len(pending)
    /\ pending[i].name = "getImageObjectUrl"
    /\ CanRun(i)
    /\ LET o == pending[i]
           rec == MapGet(store[o.c], o.id)
           url == Cardinality(objectUrls) + 1
       IN
       IF outcome = "success"
       THEN IF ~Truthy(rec)
            THEN /\ objectUrls' = objectUrls
                 /\ last' = Event("settle", o, "resolved", Null)
            ELSE /\ objectUrls' = objectUrls \cup {url}
                 /\ last' = Event("settle", o, "resolved", Url(url))
       ELSE /\ objectUrls' = objectUrls
            /\ last' = Event("settle", o, "rejected", Error("RequestError"))
    /\ pending' = Remove(pending, i)
    /\ UNCHANGED <<schemaVars, store, cacheVars, connVars, opening, now, ticks, pageVars>>

\* the store.get request of a getImageObjectUrl ends: onsuccess resolves null for
\* no record or no blob, else the URL it creates for the blob; onerror rejects
GetImageObjectUrlSettle(i, outcome) ==
    /\ i \in 1..Len(pending)
    /\ pending[i].name = "getImageObjectUrl"
    /\ CanRun(i)
    /\ LET o == pending[i]
           rec == MapGet(store[o.c], o.id)
           url == Cardinality(objectUrls) + 1
       IN
       IF outcome = "success"
       THEN IF ~HasBlob(rec)
            THEN /\ objectUrls' = objectUrls
                 /\ last' = Event("settle", o, "resolved", Null)
            ELSE /\ objectUrls' = objectUrls \cup {url}
                 /\ last' = Event("settle", o, "resolved", Url(url))
       ELSE /\ objectUrls' = objectUrls
            /\ last' = Event("settle", o, "rejected", Error("RequestError"))
    /\ pending' = Remove(pending, i)
    /\ UNCHANGED <<schemaVars, store, cacheVars, connVars, opening, now, ticks, pageVars>>

---------------------------------------------------------------------------
(* copyIndexedDbFile *)

\* phase: "get" while getReq is pending, "put" while putReq is pending, "commit"
\* once putReq has succeeded (the transaction is still live); value: the record
\* handed to store.put
CopyIndexedDbFileOp(srcId, destId) ==
    [name |-> "copyIndexedDbFile", c |-> "IndexedDbFile", mode |-> "readwrite",
     srcId |-> srcId, destId |-> destId, phase |-> "get", value |-> Undefined]

\* copyIndexedDbFile(srcId, destId) up to its first suspension
CopyIndexedDbFileCall(srcId, destId) ==
    LET o == CopyIndexedDbFileOp(srcId, destId) IN
    /\ IF dbConnection # 0
       THEN /\ TxnThrows(openConns, dbConnection, o.c) \/ Room
            /\ BeginRequest(o, openConns, dbConnection)
            /\ UNCHANGED opening
       ELSE AwaitOpen(o)
    /\ UNCHANGED <<schemaVars, store, connVars, browserVars>>

\* { id: destId, blob: rec.blob, mimeType: rec.mimeType }
CopiedRecord(rec, destId) ==
    [id |-> destId, blob |-> Field(rec, "blob"), mimeType |-> Field(rec, "mimeType")]

\* getReq ends.  onsuccess: no record resolves false; else store.put is requested,
\* which throws in the handler for a destId that is no valid key ("" stands for
\* undefined): the transaction aborts and the promise is never settled.  onerror
\* rejects
CopyIndexedDbFileGet(i, outcome) ==
    /\ i \in 1..Len(pending)
    /\ pending[i].name = "copyIndexedDbFile"
    /\ pending[i].phase = "get"
    /\ CanRun(i)
    /\ LET o == pending[i]
           rec == MapGet(store[o.c], o.srcId)
       IN
       IF outcome = "success"
       THEN IF ~Truthy(rec)
            THEN /\ pending' = Remove(pending, i)
                 /\ last' = Event("settle", o, "resolved", False)
            ELSE IF o.destId = ""
            THEN /\ pending' = Remove(pending, i)
                 /\ last' = Event("unhandled", o, "pending", Undefined)
            ELSE /\ pending' = [pending EXCEPT ![i] =
                                   [o EXCEPT !.phase = "put",
                                             !.value = CopiedRecord(rec, o.destId)]]
                 /\ last' = Event("request", o, "pending", Undefined)
       ELSE /\ pending' = Remove(pending, i)
            /\ last' = Event("settle", o, "rejected", Error("RequestError"))
    /\ UNCHANGED <<schemaVars, store, cacheVars, connVars, opening, browserVars>>

\* putReq ends: onsuccess resolves true while the transaction is still live;
\* onerror rejects, and the transaction aborts
CopyIndexedDbFilePut(i, outcome) ==
    /\ i \in 1..Len(pending)
    /\ pending[i].name = "copyIndexedDbFile"
    /\ pending[i].phase = "put"
    /\ CanRun(i)
    /\ LET o == pending[i] IN
       IF outcome = "success"
       THEN /\ pending' = [pending EXCEPT ![i] = [o EXCEPT !.phase = "commit"]]
            /\ last' = Event("settle", o, "resolved", True)
       ELSE /\ pending' = Remove(pending, i)
            /\ last' = Event("settle", o, "rejected", Error("RequestError"))
    /\ UNCHANGED <<schemaVars, store, cacheVars, connVars, opening, browserVars>>

\* the read-write transaction of a copyIndexedDbFile ends: it commits, or the
\* commit fails and the transaction aborts
CopyIndexedDbFileComplete(i, outcome) ==
    /\ i \in 1..Len(pending)
    /\ pending[i].name = "copyIndexedDbFile"
    /\ pending[i].phase = "commit"
    /\ CanRun(i)
    /\ LET o == pending[i] IN
       IF outcome = "success"
       THEN /\ store' = [store EXCEPT ![o.c] = MapSet(@, o.destId, o.value)]
            /\ last' = [ev |-> "complete", op |-> o]
       ELSE /\ store' = store
            /\ last' = [ev |-> "abort", op |-> o]
    /\ pending' = Remove(pending, i)
    /\ UNCHANGED <<schemaVars, cacheVars, connVars, opening, browserVars>>

---------------------------------------------------------------------------
(* getImageBytes *)

GetImageBytesOp(id) ==
    [name |-> "getImageBytes", c |-> "IndexedDbFile", id |-> id, mode |-> "readonly"]

\* getImageBytes(id) up to its first suspension
GetImageBytesCall(id) ==
    LET o == GetImageBytesOp(id) IN
    /\ IF dbConnection # 0
       THEN /\ TxnThrows(openConns, dbConnection, o.c) \/ Room
            /\ BeginRequest(o, openConns, dbConnection)
            /\ UNCHANGED opening
       ELSE AwaitOpen(o)
    /\ UNCHANGED <<schemaVars, store, connVars, browserVars>>

\* the store.get request of a getImageBytes ends: onsuccess resolves null for no
\* record or no blob, else the bytes of the blob once rec.blob.arrayBuffer() has
\* read them (read; when that read fails the async handler rejects unobserved and
\* the promise is never settled); onerror rejects
GetImageBytesSettle(i, outcome, read) ==
    /\ i \in 1..Len(pending)
    /\ pending[i].name = "getImageBytes"
    /\ CanRun(i)
    /\ LET o == pending[i]
           rec == MapGet(store[o.c], o.id)
       IN
       IF outcome = "success"
       THEN IF ~HasBlob(rec)
            THEN last' = Event("settle", o, "resolved", Null)
            ELSE IF read = "success"
            THEN last' = Event("settle", o, "resolved", rec.blob)
            ELSE last' = Event("unhandled", o, "pending", Undefined)
       ELSE last' = Event("settle", o, "rejected", Error("RequestError"))
    /\ pending' = Remove(pending, i)
    /\ UNCHANGED <<schemaVars, store, cacheVars, connVars, opening, browserVars>>

---------------------------------------------------------------------------
(* getAll *)

GetAllOp(collectionName) ==
    [name |-> "getAll", c |-> collectionName, mode |-> "readonly"]

\* getAll(collectionName) up to its first suspension
GetAllCall(collectionName) ==
    LET o == GetAllOp(collectionName) IN
    /\ IF dbConnection # 0
       THEN /\ TxnThrows(openConns, dbConnection, collectionName) \/ Room
            /\ BeginRequest(o, openConns, dbConnection)
            /\ UNCHANGED opening
       ELSE AwaitOpen(o)
    /\ UNCHANGED <<schemaVars, store, connVars, browserVars>>

\* the collection.getAll() request ends: onsuccess resolves the records in key
\* order, onerror rejects
GetAllSettle(i, outcome) ==
    /\ i \in 1..Len(pending)
    /\ pending[i].name = "getAll"
    /\ CanRun(i)
    /\ LET o == pending[i] IN
       IF outcome = "success"
       THEN last' = Event("settle", o, "resolved", Array(KeyCursor(o.c)))
       ELSE last' = Event("settle", o, "rejected", Error("RequestError"))
    /\ pending' = Remove(pending, i)
    /\ UNCHANGED <<schemaVars, store, cacheVars, connVars, opening, browserVars>>

---------------------------------------------------------------------------
(* The connection *)

\* indexedDB.open(DATABASE_NAME) without a version: a database that does not
\* exist is created, empty, at version 1
OpenedVersion == IF version = 0 THEN 1 ELSE version

\* the open request of getDatabase() for the longest-waiting operation ends:
\* onsuccess memoizes the new connection and the operation goes on with it;
\* onerror rejects, which getBulk turns into [] and count into 0
OpenSettle(outcome) ==
    /\ opening # << >>
    /\ Head(opening).name # "initialize"
    /\ LET o == Head(opening)
           db == connSeq + 1
           conns == openConns \cup {db}
       IN
       IF outcome = "success"
       THEN /\ dbConnection' = db
            /\ openConns' = conns
            /\ connSeq' = db
            /\ version' = OpenedVersion
            /\ IF o.name = "getBulk"
               THEN GetBulkBegin(o, conns, db)
               ELSE BeginRequest(o, conns, db)
       ELSE /\ UNCHANGED <<connVars, pending, cacheVars, version>>
            /\ last' = IF o.name = "getBulk"
                       THEN Event("settle", o, "resolved", Array(<< >>))
                       ELSE IF o.name = "count"
                       THEN Event("settle", o, "resolved", Num(0))
                       ELSE Event("settle", o, "rejected", Error("OpenError"))
    /\ opening' = Tail(opening)
    /\ UNCHANGED <<objectStoreNames, indexNames, store, browserVars>>

\* closeDatabase() leaving the memoized handle in place
CloseDatabaseKeepsHandle ==
    /\ IF dbConnection # 0
       THEN /\ openConns' = openConns \ {dbConnection}
            /\ dbConnection' = dbConnection
       ELSE UNCHANGED <<dbConnection, openConns>>
    /\ last' = [ev |-> "closeDatabase"]
    /\ UNCHANGED <<schemaVars, store, cacheVars, connSeq, opening, pending, browserVars>>

\* closeDatabase()
CloseDatabase ==
    /\ IF dbConnection # 0
       THEN /\ openConns' = openConns \ {dbConnection}
            /\ dbConnection' = 0
       ELSE UNCHANGED <<dbConnection, openConns>>
    /\ last' = [ev |-> "closeDatabase"]
    /\ UNCHANGED <<schemaVars, store, cacheVars, connSeq, opening, pending, browserVars>>

---------------------------------------------------------------------------
(* initialize *)

RequiredStores == {REQUIRED_STORES[k] : k \in DOMAIN REQUIRED_STORES}

\* MissingStores with every required store taken as missing
MissingStoresAll == RequiredStores

\* REQUIRED_STORES.filter(store => !existingStores.includes(store))
MissingStores == RequiredStores \ objectStoreNames

\* everything initialize is to ensure exists
SchemaComplete ==
    /\ RequiredStores \subseteq objectStoreNames
    /\ "ImageData" \in indexNames

\* history: an initialize() resolved in the step before
JustInitialized ==
    /\ last.ev = "settle"
    /\ last.op.name = "initialize"
    /\ last.outcome = "resolved"

\* the open request initialize() is waiting for: phase "check" (checkRequest),
\* "upgrade" (upgradeRequest, opened at version), "create" (createRequest) or
\* "getDatabase"; history: from, the database version when initialize was
\* called; base, the version before the initialize that resolved just before
\* this call, if one did; complete, whether nothing required was missing then
InitializeOp ==
    [name |-> "initialize", c |-> "", mode |-> "versionchange",
     phase |-> "check", missingStores |-> {}, version |-> 0,
     from |-> version,
     base |-> IF JustInitialized THEN last.op.from ELSE version,
     complete |-> SchemaComplete]

\* initialize() up to its first suspension: indexedDB.open(DATABASE_NAME)
InitializeCall ==
    /\ Room
    /\ OpenRoom
    /\ opening' = Append(opening, InitializeOp)
    /\ last' = Event("call", InitializeOp, "pending", Undefined)
    /\ UNCHANGED <<schemaVars, store, cacheVars, connVars, pending, browserVars>>

\* checkRequest ends.  onsuccess: the connection is closed again; with no store
\* missing getDatabase().then(() => resolve(true)) runs, which resolves at once on
\* a memoized connection and else requests an open; with stores missing the
\* database is reopened at currentVersion + 1.  onerror: createRequest opens the
\* database at version 1.
InitializeCheck(outcome) ==
    /\ opening # << >>
    /\ Head(opening).name = "initialize"
    /\ Head(opening).phase = "check"
    /\ LET o == Head(opening)
           currentVersion == OpenedVersion
       IN
       IF outcome = "success"
       THEN /\ version' = currentVersion
            /\ IF MissingStores = {}
               THEN IF dbConnection # 0
                    THEN /\ opening' = Tail(opening)
                         /\ last' = Event("settle", o, "resolved", True)
                    ELSE /\ opening' = Append(Tail(opening),
                                              [o EXCEPT !.phase = "getDatabase"])
                         /\ last' = Event("request", o, "pending", Undefined)
               ELSE /\ opening' = Append(Tail(opening),
                                         [o EXCEPT !.phase = "upgrade",
                                                   !.missingStores = MissingStores,
                                                   !.version = currentVersion + 1])
                    /\ last' = Event("request", o, "pending", Undefined)
       ELSE /\ version' = version
            /\ opening' = Append(Tail(opening),
                                 [o EXCEPT !.phase = "create", !.version = 1])
            /\ last' = Event("request", o, "pending", Undefined)
    /\ UNCHANGED <<objectStoreNames, indexNames, store, cacheVars, connVars, pending,
                   browserVars>>

\* the stores and the index after onupgradeneeded has created the stores of
\* missing that do not exist and ensured the UploadDate index of ImageData
UpgradedStores(missing) == objectStoreNames \cup missing
UpgradedIndexes(missing) ==
    IF "ImageData" \in UpgradedStores(missing)
    THEN indexNames \cup {"ImageData"}
    ELSE indexNames

\* an open request at an explicit version ends (upgradeRequest or createRequest).
\* It fails with VersionError below the database's version; above it, it waits
\* until no connection is open, runs onupgradeneeded and then onsuccess, which
\* memoizes the connection and resolves true; at the database's version onsuccess
\* alone runs.  onerror rejects.
VersionedOpenSettle(o, missing, outcome) ==
    /\ (outcome = "success" /\ o.version > version) => openConns = {}
    /\ LET db == connSeq + 1 IN
       IF outcome = "success" /\ o.version >= version
       THEN /\ version' = o.version
            /\ objectStoreNames' = IF o.version > version
                                   THEN UpgradedStores(missing)
                                   ELSE objectStoreNames
            /\ indexNames' = IF o.version > version
                             THEN UpgradedIndexes(missing)
                             ELSE indexNames
            /\ dbConnection' = db
            /\ openConns' = openConns \cup {db}
            /\ connSeq' = db
            /\ last' = Event("settle", o, "resolved", True)
       ELSE /\ UNCHANGED <<schemaVars, connVars>>
            /\ last' = Event("settle", o, "rejected",
                             IF outcome = "success" THEN Error("VersionError")
                                                    ELSE Error("OpenError"))
    /\ opening' = Tail(opening)
    /\ UNCHANGED <<store, cacheVars, pending, browserVars>>

\* upgradeRequest ends
InitializeUpgrade(outcome) ==
    /\ opening # << >>
    /\ Head(opening).name = "initialize"
    /\ Head(opening).phase = "upgrade"
    /\ VersionedOpenSettle(Head(opening), Head(opening).missingStores, outcome)

\* createRequest ends
InitializeCreate(outcome) ==
    /\ opening # << >>
    /\ Head(opening).name = "initialize"
    /\ Head(opening).phase = "create"
    /\ VersionedOpenSettle(Head(opening), RequiredStores, outcome)

\* the open request of the getDatabase() call of initialize ends: onsuccess
\* memoizes the connection and the then-callback resolves true; onerror rejects
\* the promise of getDatabase(), which has no rejection handler, and the promise
\* of initialize stays unsettled
InitializeGetDatabase(outcome) ==
    /\ opening # << >>
    /\ Head(opening).name = "initialize"
    /\ Head(opening).phase = "getDatabase"
    /\ LET o == Head(opening)
           db == connSeq + 1
       IN
       IF outcome = "success"
       THEN /\ dbConnection' = db
            /\ openConns' = openConns \cup {db}
            /\ connSeq' = db
            /\ version' = OpenedVersion
            /\ last' = Event("settle", o, "resolved", True)
       ELSE /\ UNCHANGED <<connVars, version>>
            /\ last' = Event("unhandled", o, "pending", Undefined)
    /\ opening' = Tail(opening)
    /\ UNCHANGED <<objectStoreNames, indexNames, store, cacheVars, pending, browserVars>>

---------------------------------------------------------------------------
(* Canvas interaction (initCanvasInteraction): the zoom state.              *)
(*                                                                         *)
(* A JavaScript number is the pair <<n, d>> for n/d in lowest terms, with  *)
(* <<1, 0>> for Infinity and <<0, 0>> for NaN; the arithmetic is exact.    *)
(* No assignment to scale reads the pan state (offsetX, offsetY,           *)
(* isPanning, startX, startY), which is left out.                          *)

RECURSIVE GCD(_, _)
GCD(x, y) == IF y = 0 THEN x ELSE GCD(y, x % y)

NaN == <<0, 0>>
Infinity == <<1, 0>>

\* n / d for n, d >= 0
Div(n, d) ==
    IF d = 0 THEN (IF n = 0 THEN NaN ELSE Infinity)
    ELSE <<n \div GCD(n, d), d \div GCD(n, d)>>

\* x * y
Times(x, y) == IF x = NaN \/ y = NaN THEN NaN ELSE Div(x[1] * y[1], x[2] * y[2])

\* x < y (false when either is NaN)
Less(x, y) == x # NaN /\ y # NaN /\ x # y /\ x[1] * y[2] < y[1] * x[2]

\* Math.min and Math.max: NaN when either argument is NaN
MathMin(x, y) == IF x = NaN \/ y = NaN THEN NaN ELSE IF Less(y, x) THEN y ELSE x
MathMax(x, y) == IF x = NaN \/ y = NaN THEN NaN ELSE IF Less(x, y) THEN y ELSE x

\* the model follows at most MaxGestures actions on the canvas
GestureRoom == gestures < MaxGestures

\* fitToContainer(): scale = Math.min(scaleX, scaleY) * 0.95
FitScale ==
    Times(MathMin(Div(containerRect.width, originalSize.width),
                  Div(containerRect.height, originalSize.height)),
          Div(95, 100))

\* Math.min(Math.max(0.1, scale), 10)
Clamp(x) == MathMin(MathMax(Div(1, 10), x), Div(10, 1))

\* the wheel listener: zoomFactor = e.deltaY > 0 ? 0.9 : 1.1
Wheel(deltaY) ==
    /\ GestureRoom
    /\ scale' = Clamp(Times(scale, IF deltaY > 0 THEN Div(9, 10) ELSE Div(11, 10)))
    /\ gestures' = gestures + 1
    /\ last' = [ev |-> "wheel"]
    /\ UNCHANGED <<lastTouchDistance, containerRect, originalSize>>
    /\ UNCHANGED <<accessorVars, lazyVars, processor>>

\* the touchstart listener with two touches that are distance apart
TouchStart(distance) ==
    /\ GestureRoom
    /\ lastTouchDistance' = distance
    /\ gestures' = gestures + 1
    /\ last' = [ev |-> "touchstart"]
    /\ UNCHANGED <<scale, containerRect, originalSize>>
    /\ UNCHANGED <<accessorVars, lazyVars, processor>>

\* the touchmove listener with two touches that are newTouchDistance apart
TouchMove(newTouchDistance) ==
    /\ GestureRoom
    /\ scale' = Clamp(Times(scale, Div(newTouchDistance, lastTouchDistance)))
    /\ lastTouchDistance' = newTouchDistance
    /\ gestures' = gestures + 1
    /\ last' = [ev |-> "touchmove"]
    /\ UNCHANGED <<containerRect, originalSize>>
    /\ UNCHANGED <<accessorVars, lazyVars, processor>>

\* zoomIn()
ZoomIn ==
    /\ GestureRoom
    /\ scale' = Times(scale, Div(12, 10))
    /\ gestures' = gestures + 1
    /\ last' = [ev |-> "zoomIn"]
    /\ UNCHANGED <<lastTouchDistance, containerRect, originalSize>>
    /\ UNCHANGED <<accessorVars, lazyVars, processor>>

\* zoomOut()
ZoomOut ==
    /\ GestureRoom
    /\ scale' = Times(scale, Div(8, 10))
    /\ gestures' = gestures + 1
    /\ last' = [ev |-> "zoomOut"]
    /\ UNCHANGED <<lastTouchDistance, containerRect, originalSize>>
    /\ UNCHANGED <<accessorVars, lazyVars, processor>>

\* reset: fitToContainer
Reset ==
    /\ GestureRoom
    /\ scale' = FitScale
    /\ gestures' = gestures + 1
    /\ last' = [ev |-> "reset"]
    /\ UNCHANGED <<lastTouchDistance, containerRect, originalSize>>
    /\ UNCHANGED <<accessorVars, lazyVars, processor>>

\* applyScale(newScale)
ApplyScale(newScale) ==
    /\ GestureRoom
    /\ scale' = newScale
    /\ gestures' = gestures + 1
    /\ last' = [ev |-> "applyScale"]
    /\ UNCHANGED <<lastTouchDistance, containerRect, originalSize>>
    /\ UNCHANGED <<accessorVars, lazyVars, processor>>

---------------------------------------------------------------------------
(* Lazy image loading (window.lazyLoad).                                    *)
(*                                                                         *)
(* The document holds the images Images, all of class lazy-img.  An        *)
(* attribute is Null when the element does not have it and Str(s) when it  *)
(* has it with the string s.  The page may set or remove the data-src of   *)
(* an image at any time.                                                   *)

Images == 1..MaxImages

Str(s) == [str |-> s]

\* the values of a data-src attribute
DataSrcs == {Null, Str(""), Str("a.png"), Str("b.png")}

\* if(src), for the result of getAttribute
AttrTruthy(x) == x # Null /\ x # Str("")

\* document.querySelectorAll('img.lazy-img[data-src]')
LazyImgs == {img \in Images : dataSrc[img] # Null}

\* observe() registering every selected image, registered before or not
ToObserveAll(imgs) == imgs

\* the images of imgs that pass if(!observerMap.has(img))
ToObserve(imgs) == {img \in imgs : img \notin observerMap}

\* window.lazyLoad.observe()
Observe ==
    /\ lazyCalls < MaxObserves
    /\ LET new == ToObserve(LazyImgs)
       IN  /\ ioTargets' = ioTargets \cup new
           /\ observerMap' = observerMap \cup new
           /\ observeCalls' = [img \in Images |->
                                 observeCalls[img] + (IF img \in new THEN 1 ELSE 0)]
    /\ io' = TRUE
    /\ lazyCalls' = lazyCalls + 1
    /\ last' = [ev |-> "observe"]
    /\ UNCHANGED <<dataSrc, imgSrc, intersected>>
    /\ UNCHANGED <<accessorVars, canvasVars, processor>>

\* the targets of the entries that are intersecting
Intersecting(entries) == {img \in DOMAIN entries : entries[img]}

\* onIntersect(entries, obs): entries[img] is the isIntersecting of the entry
\* whose target is img
OnIntersect(entries) ==
    /\ io
    /\ DOMAIN entries # {}
    /\ DOMAIN entries \subseteq ioTargets
    /\ LET hit == Intersecting(entries)
           loaded == {img \in hit : AttrTruthy(dataSrc[img])}
       IN  /\ imgSrc' = [img \in Images |->
                           IF img \in loaded THEN dataSrc[img] ELSE imgSrc[img]]
           /\ dataSrc' = [img \in Images |->
                            IF img \in loaded THEN Null ELSE dataSrc[img]]
           /\ ioTargets' = ioTargets \ hit
           /\ intersected' = intersected \cup hit
    /\ last' = [ev |-> "intersect", entries |-> entries]
    /\ UNCHANGED <<io, observerMap, observeCalls, lazyCalls>>
    /\ UNCHANGED <<accessorVars, canvasVars, processor>>

\* the page sets (or, with Null, removes) the data-src attribute of an image
SetDataSrc(img, value) ==
    /\ dataSrc[img] # value
    /\ dataSrc' = [dataSrc EXCEPT ![img] = value]
    /\ last' = [ev |-> "setAttribute"]
    /\ UNCHANGED <<imgSrc, io, ioTargets, observerMap, observeCalls, lazyCalls, intersected>>
    /\ UNCHANGED <<accessorVars, canvasVars, processor>>

---------------------------------------------------------------------------
(* The image processor (imageProcessor): its promises.                      *)
(*                                                                         *)
(* processor[i] is the promise of the i-th call: the operation, what it    *)
(* waits for (stage: "load" the image's load or error event, "toBlob" the  *)
(* callback of canvas.toBlob, "read" the FileReader's events, "none" no    *)
(* event that has a handler), and its state.  The pixels are left out: a   *)
(* value is named by its kind.                                             *)

\* the model follows at most MaxCalls calls
CallRoom == Len(processor) < MaxCalls

Promise(name, stage, state, value) ==
    [name |-> name, stage |-> stage, state |-> state, value |-> value,
     sizes |-> 0, done |-> 0, regionsX |-> 0, regionsY |-> 0]

\* new Promise(...) whose executor sets img.src = imageUrl
Loading(name) == Promise(name, "load", "pending", "none")

Waiting(i, stage) ==
    /\ i \in 1..Len(processor)
    /\ processor[i].state = "pending"
    /\ processor[i].stage = stage

Becomes(i, promise) == processor' = [processor EXCEPT ![i] = promise]

Settle(i, state, value) ==
    Becomes(i, [processor[i] EXCEPT !.stage = "none", !.state = state, !.value = value])

\* no handler is left that could settle the promise
Abandon(i) == Becomes(i, [processor[i] EXCEPT !.stage = "none"])

\* the operations that build their image with an onerror handler
HasOnError(name) == name = "constrainProportions"

\* the operations that reach canvas.toBlob in img.onload
Encodes(name) == name \in {"constrainProportions", "resizeImage", "generateThumbnails"}

\* constrainProportions(imageUrl, width, height)
ConstrainProportionsCall ==
    /\ CallRoom
    /\ processor' = Append(processor, Loading("constrainProportions"))
    /\ last' = [ev |-> "call"]
    /\ UNCHANGED <<accessorVars, canvasVars, lazyVars>>

\* resizeImage(imageUrl, width, height)
ResizeImageCall ==
    /\ CallRoom
    /\ processor' = Append(processor, Loading("resizeImage"))
    /\ last' = [ev |-> "call"]
    /\ UNCHANGED <<accessorVars, canvasVars, lazyVars>>

\* generateThumbnails(imageUrl, sizes) with sizes.length = n: up to the first
\* await, or to the return when sizes is empty
GenerateThumbnailsCall(n) ==
    /\ CallRoom
    /\ processor' = Append(processor,
           IF n = 0
           THEN Promise("generateThumbnails", "none", "resolved", "thumbnails")
           ELSE [Loading("generateThumbnails") EXCEPT !.sizes = n])
    /\ last' = [ev |-> "call"]
    /\ UNCHANGED <<accessorVars, canvasVars, lazyVars>>

\* generateImageSignature(imageUrl, regionsX, regionsY)
GenerateImageSignatureCall(regionsX, regionsY) ==
    /\ CallRoom
    /\ processor' = Append(processor,
           [Loading("generateImageSignature") EXCEPT !.regionsX = regionsX,
                                                     !.regionsY = regionsY])
    /\ last' = [ev |-> "call"]
    /\ UNCHANGED <<accessorVars, canvasVars, lazyVars>>

\* ctx.getImageData(sx, sy, sw, sh) throws when sw or sh is 0
GetImageDataThrows(sw, sh) == sw = 0 \/ sh = 0

\* img.onload of generateImageSignature for an image of width by height pixels:
\* whether a getImageData call of the loops throws
SignatureThrows(width, height, regionsX, regionsY) ==
    LET regionWidth == width \div regionsX
        regionHeight == height \div regionsY
    IN  /\ regionsX > 0
        /\ regionsY > 0
        /\ GetImageDataThrows(regionWidth, regionHeight)

\* the image of promise i has loaded, width by height pixels: img.onload
ImgLoad(i, width, height) ==
    /\ Waiting(i, "load")
    /\ LET o == processor[i]
       IN  IF Encodes(o.name)
           THEN Becomes(i, [o EXCEPT !.stage = "toBlob"])
           ELSE IF SignatureThrows(width, height, o.regionsX, o.regionsY)
                THEN Abandon(i)
                ELSE Settle(i, "resolved", "signature")
    /\ last' = [ev |-> "load"]
    /\ UNCHANGED <<accessorVars, canvasVars, lazyVars>>

\* the image of promise i has failed to load: img.onerror, where there is one
ImgError(i) ==
    /\ Waiting(i, "load")
    /\ IF HasOnError(processor[i].name)
       THEN Settle(i, "rejected", "Error")
       ELSE Abandon(i)
    /\ last' = [ev |-> "error"]
    /\ UNCHANGED <<accessorVars, canvasVars, lazyVars>>

\* the callback of canvas.toBlob runs, with a Blob or with null:
\* reader.readAsArrayBuffer(null) throws
ToBlob(i, blob) ==
    /\ Waiting(i, "toBlob")
    /\ IF blob
       THEN Becomes(i, [processor[i] EXCEPT !.stage = "read"])
       ELSE Abandon(i)
    /\ last' = [ev |-> "toBlob"]
    /\ UNCHANGED <<accessorVars, canvasVars, lazyVars>>

\* resizeImage has resolved inside generateThumbnails: the next size, or the return
NextThumbnail(i) ==
    LET o == processor[i]
    IN  IF o.done + 1 = o.sizes
        THEN Becomes(i, [o EXCEPT !.stage = "none", !.state = "resolved",
                                  !.value = "thumbnails", !.done = o.sizes])
        ELSE Becomes(i, [o EXCEPT !.stage = "load", !.done = o.done + 1])

\* the FileReader of promise i ends, with the bytes or with an error: onerror,
\* where there is one, then onloadend
ReaderEnd(i, ok) ==
    /\ Waiting(i, "read")
    /\ LET o == processor[i]
       IN  CASE o.name = "constrainProportions" ->
                    IF ok THEN Settle(i, "resolved", "bytes")
                    ELSE Settle(i, "rejected", "Error")
             [] o.name = "resizeImage" ->
                    Settle(i, "resolved", IF ok THEN "bytes" ELSE "no bytes")
             [] OTHER -> NextThumbnail(i)
    /\ last' = [ev |-> "loadend"]
    /\ UNCHANGED <<accessorVars, canvasVars, lazyVars>>

---------------------------------------------------------------------------
(* The page before any of its scripts has run: the declared values *)

NoCanvas ==
    /\ scale = Div(1, 1)
    /\ lastTouchDistance = 0
    /\ containerRect = [width |-> 1, height |-> 1]
    /\ originalSize = [width |-> 1, height |-> 1]
    /\ gestures = 0

NoLazy ==
    /\ dataSrc = [img \in Images |-> Null]
    /\ imgSrc = [img \in Images |-> Null]
    /\ io = FALSE
    /\ ioTargets = {}
    /\ observerMap = {}
    /\ observeCalls = [img \in Images |-> 0]
    /\ lazyCalls = 0
    /\ intersected = {}

NoProcessor == processor = << >>

NoPage == NoCanvas /\ NoLazy /\ NoProcessor

---------------------------------------------------------------------------
(* Specifications.  Each one is the accessor above driven by a set of calls  *)
(* and store outcomes, from a state the program can be in.                   *)

EmptyStore == [c \in AllCollections |-> EmptyMap]

\* the state after initialize() has resolved on an empty database
Init ==
    /\ version = 2
    /\ objectStoreNames = AllCollections
    /\ indexNames = {"ImageData"}
    /\ store = EmptyStore
    /\ memoryCache = EmptyMap
    /\ populatedAt = EmptyMap
    /\ dbConnection = 1
    /\ openConns = {1}
    /\ connSeq = 1
    /\ opening = << >>
    /\ pending = << >>
    /\ now = 0
    /\ ticks = 0
    /\ objectUrls = {}
    /\ NoPage
    /\ last = NoEvent

(* Spec: records and cache of one collection; get, set, deleteRecord, getBulk  *)
(* and clearCache calls in any interleaving with the store's completions.      *)

Writes == {Rec("a", 1, 1), Rec("a", 2, 1), Rec("b", 1, 1)}
BulkIds == {<<"a", "a">>, <<"a", "b">>, <<"b", "a">>}
Outcomes == {"success", "error"}

Next ==
    \/ \E r \in Writes : SetCall("Mosaic", r)
    \/ \E id \in {"a", "b"} : GetCall("Mosaic", id)
    \/ \E id \in {"a", "b"} : DeleteCall("Mosaic", id)
    \/ \E ids \in BulkIds : GetBulkCall("Mosaic", ids)
    \/ \E c \in {"Mosaic", ""} : ClearCache(c)
    \/ \E i \in 1..MaxPending : SetPut(i, "success")
    \/ \E i \in 1..MaxPending : SetSettle(i, "success")
    \/ \E i \in 1..MaxPending : GetSettle(i, "success")
    \/ \E i \in 1..MaxPending : DeleteSettle(i, "success")
    \/ \E i \in 1..MaxPending : DeleteComplete(i, "success")
    \/ \E i \in 1..MaxPending, outcome \in Outcomes : GetBulkRequest(i, outcome)

Spec == Init /\ [][Next]_vars

(* SpecTTL: one key and the clock, which advances by one millisecond or by    *)
(* one millisecond less than the time to live.                                 *)

Delays == {1, CACHE_TTL - 1}

NextTTL ==
    \/ \E v \in {1, 2} : SetCall("Mosaic", Rec("a", v, 1))
    \/ GetCall("Mosaic", "a")
    \/ DeleteCall("Mosaic", "a")
    \/ GetBulkCall("Mosaic", <<"a">>)
    \/ ClearCache("Mosaic")
    \/ \E i \in 1..MaxPending : SetPut(i, "success")
    \/ \E i \in 1..MaxPending : SetSettle(i, "success")
    \/ \E i \in 1..MaxPending, outcome \in Outcomes : GetSettle(i, outcome)
    \/ \E i \in 1..MaxPending : DeleteSettle(i, "success")
    \/ \E i \in 1..MaxPending : DeleteComplete(i, "success")
    \/ \E i \in 1..MaxPending : GetBulkRequest(i, "success")
    \/ \E d \in Delays : Tick(d)

SpecTTL == Init /\ [][NextTTL]_vars

(* SpecClear: cache entries of three collections, two of them with one name   *)
(* a prefix of the other, some of them expired.                                *)

ClearCollections == {"Mosaic", "MosaicTemplate", "ImageData"}

\* record a is stored in each of the three collections, or in none
InitClear ==
    /\ version = 2
    /\ objectStoreNames = AllCollections
    /\ indexNames = {"ImageData"}
    /\ store \in {EmptyStore,
                  [c \in AllCollections |->
                      IF c \in ClearCollections
                      THEN MapSet(EmptyMap, "a", Rec("a", 1, 1))
                      ELSE EmptyMap]}
    /\ memoryCache = EmptyMap
    /\ populatedAt = EmptyMap
    /\ dbConnection = 1
    /\ openConns = {1}
    /\ connSeq = 1
    /\ opening = << >>
    /\ pending = << >>
    /\ now = 0
    /\ ticks = 0
    /\ objectUrls = {}
    /\ NoPage
    /\ last = NoEvent

NextClear ==
    \/ \E c \in ClearCollections : GetCall(c, "a")
    \/ \E c \in ClearCollections \cup {""} : ClearCache(c)
    \/ \E i \in 1..MaxPending : GetSettle(i, "success")
    \/ Tick(CACHE_TTL)

SpecClear == InitClear /\ [][NextClear]_vars

(* SpecScan: getRange, getAllPagedByDate and count, one at a time, on every    *)
(* content of ImageData with up to three records, with and without the index.  *)

Dates == 1..MaxDate

ScanStores ==
    {[EmptyStore EXCEPT !["ImageData"] = f] :
        f \in {g \in UNION {[S -> {Rec(id, 1, d) : id \in S, d \in Dates}] : S \in SUBSET AllIds} :
                 \A id \in DOMAIN g : g[id].id = id}}

InitScan ==
    /\ version = 2
    /\ objectStoreNames = AllCollections
    /\ indexNames \in {{}, {"ImageData"}}
    /\ store \in ScanStores
    /\ memoryCache = EmptyMap
    /\ populatedAt = EmptyMap
    /\ dbConnection = 1
    /\ openConns = {1}
    /\ connSeq = 1
    /\ opening = << >>
    /\ pending = << >>
    /\ now = 0
    /\ ticks = 0
    /\ objectUrls = {}
    /\ NoPage
    /\ last = NoEvent

NextScan ==
    \/ /\ pending = << >>
       /\ \E skip \in 0..MaxSkip, take \in 0..MaxTake : GetRangeCall("ImageData", skip, take)
    \/ /\ pending = << >>
       /\ \E skip \in 0..MaxSkip, take \in 0..MaxTake :
             GetAllPagedByDateCall("ImageData", skip, take)
    \/ /\ pending = << >>
       /\ CountCall("ImageData")
    \/ \E outcome \in Outcomes : GetRangeSettle(1, outcome)
    \/ \E outcome \in Outcomes : GetAllPagedByDateSettle(1, outcome)
    \/ \E outcome \in Outcomes : CountSettle(1, outcome)

SpecScan == InitScan /\ [][NextScan]_vars

(* SpecConn: no connection yet; open requests succeed or fail, the connection  *)
(* is closed and reopened, and callers name a collection that does not exist.  *)

InitConn ==
    /\ version = 2
    /\ objectStoreNames = AllCollections
    /\ indexNames = {"ImageData"}
    /\ store \in {EmptyStore, [EmptyStore EXCEPT !["Mosaic"] = MapSet(@, "a", Rec("a", 1, 1))]}
    /\ memoryCache = EmptyMap
    /\ populatedAt = EmptyMap
    /\ dbConnection = 0
    /\ openConns = {}
    /\ connSeq = 0
    /\ opening = << >>
    /\ pending = << >>
    /\ now = 0
    /\ ticks = 0
    /\ objectUrls = {}
    /\ NoPage
    /\ last = NoEvent

NextConn ==
    \/ \E ids \in {NotArray, << >>, <<"a">>, <<"a", "b">>} : GetBulkCall("Mosaic", ids)
    \/ \E c \in {"Mosaic", "Nope"} : CountCall(c)
    \/ GetCall("Mosaic", "a")
    \/ SetCall("Mosaic", Rec("b", 1, 1))
    \/ \E outcome \in Outcomes : OpenSettle(outcome)
    \/ CloseDatabase
    \/ \E i \in 1..MaxPending, outcome \in Outcomes : GetBulkRequest(i, outcome)
    \/ \E i \in 1..MaxPending, outcome \in Outcomes : CountSettle(i, outcome)
    \/ \E i \in 1..MaxPending, outcome \in Outcomes : GetSettle(i, outcome)
    \/ \E i \in 1..MaxPending, outcome \in Outcomes : SetPut(i, outcome)
    \/ \E i \in 1..MaxPending : SetSettle(i, "success")

SpecConn == InitConn /\ [][NextConn]_vars

(* SpecHas: one key written, read through the cache, deleted and looked up,    *)
(* on a store whose writes and commits succeed.                                *)

NextHas ==
    \/ SetCall("Mosaic", Rec("a", 1, 1))
    \/ GetCall("Mosaic", "a")
    \/ DeleteCall("Mosaic", "a")
    \/ \E id \in {"a", "b"} : HasRecordCall("Mosaic", id)
    \/ \E i \in 1..MaxPending : SetPut(i, "success")
    \/ \E i \in 1..MaxPending : SetSettle(i, "success")
    \/ \E i \in 1..MaxPending : GetSettle(i, "success")
    \/ \E i \in 1..MaxPending : DeleteSettle(i, "success")
    \/ \E i \in 1..MaxPending : DeleteComplete(i, "success")
    \/ \E i \in 1..MaxPending, outcome \in Outcomes : HasRecordSettle(i, outcome)

SpecHas == Init /\ [][NextHas]_vars

(* SpecTxn: the requests and the commits of read-write transactions succeed    *)
(* or fail.                                                                    *)

NextTxn ==
    \/ \E v \in {1, 2} : SetCall("Mosaic", Rec("a", v, 1))
    \/ GetCall("Mosaic", "a")
    \/ DeleteCall("Mosaic", "a")
    \/ \E i \in 1..MaxPending, outcome \in Outcomes : SetPut(i, outcome)
    \/ \E i \in 1..MaxPending, outcome \in Outcomes : SetSettle(i, outcome)
    \/ \E i \in 1..MaxPending : GetSettle(i, "success")
    \/ \E i \in 1..MaxPending, outcome \in Outcomes : DeleteSettle(i, outcome)
    \/ \E i \in 1..MaxPending, outcome \in Outcomes : DeleteComplete(i, outcome)

SpecTxn == Init /\ [][NextTxn]_vars

(* SpecInput: no connection yet; set, get and setImageBlob are called with     *)
(* well-formed and with malformed arguments.                                   *)

\* malformed arguments: a missing record, a record without id, no collection name
BadSets == {<<"Mosaic", Null>>, <<"Mosaic", Undefined>>, <<"Mosaic", Rec("", 1, 1)>>,
            <<"", Rec("b", 1, 1)>>}
\* no collection name, an undefined id
BadGets == {<<"", "a">>, <<"Mosaic", "">>}
\* a missing id, missing data
BadBlobs == {<<"", Bytes(1)>>, <<"a", Null>>, <<"a", Undefined>>}

NextInput ==
    \/ \E a \in BadSets \cup {<<"Mosaic", Rec("a", 1, 1)>>} : SetCall(a[1], a[2])
    \/ \E a \in BadGets \cup {<<"Mosaic", "a">>} : GetCall(a[1], a[2])
    \/ \E a \in BadBlobs \cup {<<"a", Bytes(1)>>} : SetImageBlobCall(a[1], a[2])
    \/ \E outcome \in Outcomes : OpenSettle(outcome)
    \/ \E i \in 1..MaxPending, outcome \in Outcomes : SetPut(i, outcome)
    \/ \E i \in 1..MaxPending : SetSettle(i, "success")
    \/ \E i \in 1..MaxPending, outcome \in Outcomes : GetSettle(i, outcome)
    \/ \E i \in 1..MaxPending, outcome \in Outcomes : SetImageBlobSettle(i, outcome)
    \/ \E i \in 1..MaxPending : SetImageBlobComplete(i, "success")

SpecInput == InitConn /\ [][NextInput]_vars

(* SpecInit: initialize() on every kind of database: absent, empty, some or    *)
(* all stores present, with and without the index; open requests succeed or    *)
(* fail, and the connection is closed again.                                   *)

Schema(v, stores, indexes) == [version |-> v, stores |-> stores, indexes |-> indexes]

Schemas ==
    {Schema(0, {}, {}),
     Schema(1, {}, {}),
     Schema(1, {"Mosaic"}, {}),
     Schema(1, {"ImageData"}, {}),
     Schema(1, {"ImageData"}, {"ImageData"}),
     Schema(1, AllCollections \ {"ImageData"}, {}),
     Schema(1, AllCollections, {}),
     Schema(2, AllCollections, {"ImageData"})}

InitInit ==
    /\ \E x \in Schemas :
          /\ version = x.version
          /\ objectStoreNames = x.stores
          /\ indexNames = x.indexes
    /\ store = EmptyStore
    /\ memoryCache = EmptyMap
    /\ populatedAt = EmptyMap
    /\ dbConnection = 0
    /\ openConns = {}
    /\ connSeq = 0
    /\ opening = << >>
    /\ pending = << >>
    /\ now = 0
    /\ ticks = 0
    /\ objectUrls = {}
    /\ NoPage
    /\ last = NoEvent

NextInit ==
    \/ InitializeCall
    \/ \E outcome \in Outcomes : InitializeCheck(outcome)
    \/ \E outcome \in Outcomes : InitializeUpgrade(outcome)
    \/ \E outcome \in Outcomes : InitializeCreate(outcome)
    \/ \E outcome \in Outcomes : InitializeGetDatabase(outcome)
    \/ GetCall("Mosaic", "a")
    \/ \E outcome \in Outcomes : OpenSettle(outcome)
    \/ \E i \in 1..MaxPending : GetSettle(i, "success")
    \/ CloseDatabase

SpecInit == InitInit /\ [][NextInit]_vars

(* SpecSettle: every accessor operation that returns a promise of its own,    *)
(* on every kind of database, with requests, commits and open requests that    *)
(* succeed or fail.  The store answers every request it was given and ends     *)
(* every transaction: each answer is weakly fair.  Calls and closeDatabase     *)
(* are the caller's and carry no fairness.                                     *)

NextSettle ==
    \/ InitializeCall
    \/ SetCall("Mosaic", Rec("a", 1, 1))
    \/ GetCall("Mosaic", "a")
    \/ DeleteCall("Mosaic", "a")
    \/ GetRangeCall("ImageData", 0, 1)
    \/ GetAllPagedByDateCall("ImageData", 0, 1)
    \/ CloseDatabase
    \/ \E outcome \in Outcomes : OpenSettle(outcome)
    \/ \E outcome \in Outcomes : InitializeCheck(outcome)
    \/ \E outcome \in Outcomes : InitializeUpgrade(outcome)
    \/ \E outcome \in Outcomes : InitializeCreate(outcome)
    \/ \E outcome \in Outcomes : InitializeGetDatabase(outcome)
    \/ \E i \in 1..MaxPending, outcome \in Outcomes : SetPut(i, outcome)
    \/ \E i \in 1..MaxPending, outcome \in Outcomes : SetSettle(i, outcome)
    \/ \E i \in 1..MaxPending, outcome \in Outcomes : GetSettle(i, outcome)
    \/ \E i \in 1..MaxPending, outcome \in Outcomes : DeleteSettle(i, outcome)
    \/ \E i \in 1..MaxPending, outcome \in Outcomes : DeleteComplete(i, outcome)
    \/ \E i \in 1..MaxPending, outcome \in Outcomes : GetRangeSettle(i, outcome)
    \/ \E i \in 1..MaxPending, outcome \in Outcomes : GetAllPagedByDateSettle(i, outcome)

StoreAnswers ==
    /\ WF_vars(\E outcome \in Outcomes : OpenSettle(outcome))
    /\ WF_vars(\E outcome \in Outcomes : InitializeCheck(outcome))
    /\ WF_vars(\E outcome \in Outcomes : InitializeUpgrade(outcome))
    /\ WF_vars(\E outcome \in Outcomes : InitializeCreate(outcome))
    /\ WF_vars(\E outcome \in Outcomes : InitializeGetDatabase(outcome))
    /\ WF_vars(\E i \in 1..MaxPending, outcome \in Outcomes : SetPut(i, outcome))
    /\ WF_vars(\E i \in 1..MaxPending, outcome \in Outcomes : SetSettle(i, outcome))
    /\ WF_vars(\E i \in 1..MaxPending, outcome \in Outcomes : GetSettle(i, outcome))
    /\ WF_vars(\E i \in 1..MaxPending, outcome \in Outcomes : DeleteSettle(i, outcome))
    /\ WF_vars(\E i \in 1..MaxPending, outcome \in Outcomes : DeleteComplete(i, outcome))
    /\ WF_vars(\E i \in 1..MaxPending, outcome \in Outcomes : GetRangeSettle(i, outcome))
    /\ WF_vars(\E i \in 1..MaxPending, outcome \in Outcomes : GetAllPagedByDateSettle(i, outcome))

SpecSettle == InitInit /\ [][NextSettle]_vars /\ StoreAnswers

(* SpecFrame: every operation of the accessor, one at a time, on a database    *)
(* that holds records and blobs; requests and commits succeed or fail.         *)

BlobRec(id, n) == [id |-> id, blob |-> Bytes(n), mimeType |-> "image/webp"]

FrameStore ==
    [c \in AllCollections |->
        IF c = "IndexedDbFile"
        THEN MapSet(MapSet(EmptyMap, "a", BlobRec("a", 1)), "b", Rec("b", 1, 1))
        ELSE IF c \in {"Mosaic", "ImageData"}
        THEN MapSet(EmptyMap, "a", Rec("a", 1, 1))
        ELSE EmptyMap]

InitFrame ==
    /\ version = 2
    /\ objectStoreNames = AllCollections
    /\ indexNames = {"ImageData"}
    /\ store = FrameStore
    /\ memoryCache = EmptyMap
    /\ populatedAt = EmptyMap
    /\ dbConnection \in {0, 1}
    /\ openConns = {dbConnection} \ {0}
    /\ connSeq = dbConnection
    /\ opening = << >>
    /\ pending = << >>
    /\ now = 0
    /\ ticks = 0
    /\ objectUrls = {}
    /\ NoPage
    /\ last = NoEvent

\* no operation is in flight
Idle == opening = << >> /\ pending = << >>

NextFrame ==
    \/ Idle /\ \E id \in {"a", "b"} : GetCall("Mosaic", id)
    \/ Idle /\ \E ids \in {<<"a">>, <<"b", "a">>} : GetBulkCall("Mosaic", ids)
    \/ \E c \in {"", "Mosaic"} : ClearCache(c)
    \/ Idle /\ SetCall("Mosaic", Rec("b", 1, 1))
    \/ Idle /\ DeleteCall("Mosaic", "a")
    \/ Idle /\ GetRangeCall("ImageData", 0, 1)
    \/ Idle /\ GetAllCall("Mosaic")
    \/ Idle /\ GetAllPagedByDateCall("ImageData", 0, 1)
    \/ Idle /\ CountCall("Mosaic")
    \/ Idle /\ HasRecordCall("Mosaic", "a")
    \/ Idle /\ SetImageBlobCall("c", Bytes(2))
    \/ Idle /\ \E id \in {"a", "b", "c", ""} : GetImageObjectUrlCall(id)
    \/ Idle /\ \E srcId \in {"a", "c"}, destId \in {"b", "c", ""} :
                  CopyIndexedDbFileCall(srcId, destId)
    \/ Idle /\ GetImageBytesCall("a")
    \/ CloseDatabase
    \/ \E outcome \in Outcomes : OpenSettle(outcome)
    \/ \E outcome \in Outcomes : GetSettle(1, outcome)
    \/ \E outcome \in Outcomes : GetBulkRequest(1, outcome)
    \/ \E outcome \in Outcomes : SetPut(1, outcome)
    \/ \E outcome \in Outcomes : SetSettle(1, outcome)
    \/ \E outcome \in Outcomes : DeleteSettle(1, outcome)
    \/ \E outcome \in Outcomes : DeleteComplete(1, outcome)
    \/ \E outcome \in Outcomes : GetRangeSettle(1, outcome)
    \/ \E outcome \in Outcomes : GetAllSettle(1, outcome)
    \/ \E outcome \in Outcomes : GetAllPagedByDateSettle(1, outcome)
    \/ \E outcome \in Outcomes : CountSettle(1, outcome)
    \/ \E outcome \in Outcomes : HasRecordSettle(1, outcome)
    \/ \E outcome \in Outcomes : SetImageBlobSettle(1, outcome)
    \/ \E outcome \in Outcomes : SetImageBlobComplete(1, outcome)
    \/ \E outcome \in Outcomes : GetImageObjectUrlSettle(1, outcome)
    \/ \E outcome \in Outcomes : CopyIndexedDbFileGet(1, outcome)
    \/ \E outcome \in Outcomes : CopyIndexedDbFilePut(1, outcome)
    \/ \E outcome \in Outcomes : CopyIndexedDbFileComplete(1, outcome)
    \/ \E outcome \in Outcomes, read \in Outcomes : GetImageBytesSettle(1, outcome, read)

SpecFrame == InitFrame /\ [][NextFrame]_vars

(* SpecOrder: getBulk on a store of three records, with some of them cached    *)
(* by earlier reads; the sub-fetches of a getBulk end in any order, so that    *)
(* what Promise.all makes of them is seen for every completion order.           *)

OrderStore ==
    [EmptyStore EXCEPT !["Mosaic"] =
        [id \in AllIds |-> Rec(id, 1, 1)]]

InitOrder ==
    /\ version = 2
    /\ objectStoreNames = AllCollections
    /\ indexNames = {"ImageData"}
    /\ store = OrderStore
    /\ memoryCache = EmptyMap
    /\ populatedAt = EmptyMap
    /\ dbConnection = 1
    /\ openConns = {1}
    /\ connSeq = 1
    /\ opening = << >>
    /\ pending = << >>
    /\ now = 0
    /\ ticks = 0
    /\ objectUrls = {}
    /\ NoPage
    /\ last = NoEvent

OrderIds == {<<"c", "a", "b">>, <<"b", "a">>, <<"c", "c", "a">>}

NextOrder ==
    \/ Idle /\ \E id \in AllIds : GetCall("Mosaic", id)
    \/ Idle /\ \E ids \in OrderIds : GetBulkCall("Mosaic", ids)
    \/ ClearCache("Mosaic")
    \/ GetSettle(1, "success")
    \/ \E k \in 1..3, outcome \in Outcomes : GetBulkRequestAt(1, k, outcome)

SpecOrder == InitOrder /\ [][NextOrder]_vars

(* SpecKeys: the store holds one record under the number 1 and another under   *)
(* the string "1"; both are read and written through the cache.                *)

KeyIds == {Number1, "1", "a"}

InitKeys ==
    /\ version = 2
    /\ objectStoreNames = AllCollections
    /\ indexNames = {"ImageData"}
    /\ store = [EmptyStore EXCEPT !["Mosaic"] =
                   MapSet(MapSet(EmptyMap, Number1, Rec(Number1, 1, 1)), "1", Rec("1", 2, 1))]
    /\ memoryCache = EmptyMap
    /\ populatedAt = EmptyMap
    /\ dbConnection = 1
    /\ openConns = {1}
    /\ connSeq = 1
    /\ opening = << >>
    /\ pending = << >>
    /\ now = 0
    /\ ticks = 0
    /\ objectUrls = {}
    /\ NoPage
    /\ last = NoEvent

NextKeys ==
    \/ \E id \in KeyIds : GetCall("Mosaic", id)
    \/ \E id \in KeyIds : SetCall("Mosaic", Rec(id, 3, 1))
    \/ \E ids \in {<<"1">>, <<Number1, "1">>} : GetBulkCall("Mosaic", ids)
    \/ \E c \in {"Mosaic", "ImageData"} : ClearCache(c)
    \/ \E i \in 1..MaxPending : GetSettle(i, "success")
    \/ \E i \in 1..MaxPending : SetPut(i, "success")
    \/ \E i \in 1..MaxPending : SetSettle(i, "success")
    \/ \E i \in 1..MaxPending : GetBulkRequest(i, "success")

SpecKeys == InitKeys /\ [][NextKeys]_vars

(* SpecCanvas: the canvas interaction alone.  The canvas and its container   *)
(* have sizes for which the fit at construction is within the zoom limits;   *)
(* wheel, pinch and the returned methods then act in any order.  A          *)
(* touchmove with two touches follows a touchstart with two touches.         *)

\* the accessor before any call, on a browser without the database
NoAccessor ==
    /\ version = 0
    /\ objectStoreNames = {}
    /\ indexNames = {}
    /\ store = EmptyStore
    /\ memoryCache = EmptyMap
    /\ populatedAt = EmptyMap
    /\ dbConnection = 0
    /\ openConns = {}
    /\ connSeq = 0
    /\ opening = << >>
    /\ pending = << >>
    /\ now = 0
    /\ ticks = 0
    /\ objectUrls = {}

Sizes == {1, 2}
TouchDistances == {1, 2, 4}
AppliedScales == {Div(1, 10), Div(1, 1), Div(10, 1)}

\* initCanvasInteraction(canvas, container) has run: applyTransform(),
\* fitToContainer()
InitCanvas ==
    /\ NoAccessor
    /\ NoLazy
    /\ NoProcessor
    /\ containerRect \in [width : Sizes, height : Sizes]
    /\ originalSize \in [width : Sizes, height : Sizes]
    /\ scale = FitScale
    /\ lastTouchDistance = 0
    /\ gestures = 0
    /\ last = NoEvent

NextCanvas ==
    \/ \E deltaY \in {-1, 1} : Wheel(deltaY)
    \/ \E distance \in TouchDistances : TouchStart(distance)
    \/ \E distance \in TouchDistances : lastTouchDistance > 0 /\ TouchMove(distance)
    \/ ZoomIn
    \/ ZoomOut
    \/ Reset
    \/ \E newScale \in AppliedScales : ApplyScale(newScale)

SpecCanvas == InitCanvas /\ [][NextCanvas]_vars

(* SpecLazy: lazy loading alone.  The images start with any data-src and no  *)
(* src; observe() is called, the observer reports entries for images it      *)
(* observes, and the page sets and removes data-src attributes, in any order. *)

\* the script has run: observerMap = new WeakMap(), io undefined
InitLazy ==
    /\ NoAccessor
    /\ NoCanvas
    /\ NoProcessor
    /\ dataSrc \in [Images -> DataSrcs]
    /\ imgSrc = [img \in Images |-> Null]
    /\ io = FALSE
    /\ ioTargets = {}
    /\ observerMap = {}
    /\ observeCalls = [img \in Images |-> 0]
    /\ lazyCalls = 0
    /\ intersected = {}
    /\ last = NoEvent

NextLazy ==
    \/ Observe
    \/ \E T \in SUBSET Images : \E entries \in [T -> BOOLEAN] : OnIntersect(entries)
    \/ \E img \in Images : \E value \in DataSrcs : SetDataSrc(img, value)

SpecLazy == InitLazy /\ [][NextLazy]_vars

(* SpecProcessor: the image processor alone.  Operations are called and the  *)
(* browser answers: an image loads or fails to load, canvas.toBlob calls    *)
(* back, a FileReader ends.  The browser answers every request it was given. *)

InitProcessor ==
    /\ NoAccessor
    /\ NoCanvas
    /\ NoLazy
    /\ NoProcessor
    /\ last = NoEvent

ImageSizes == {1, 2}
Regions == {1, 2}

NextProcessor ==
    \/ ConstrainProportionsCall
    \/ ResizeImageCall
    \/ \E n \in 0..MaxSizes : GenerateThumbnailsCall(n)
    \/ \E regionsX \in Regions, regionsY \in Regions :
           GenerateImageSignatureCall(regionsX, regionsY)
    \/ \E i \in 1..MaxCalls : \E width \in ImageSizes, height \in ImageSizes :
           ImgLoad(i, width, height)
    \/ \E i \in 1..MaxCalls : ImgError(i)
    \/ \E i \in 1..MaxCalls : \E blob \in BOOLEAN : ToBlob(i, blob)
    \/ \E i \in 1..MaxCalls : \E ok \in BOOLEAN : ReaderEnd(i, ok)

\* the browser fires load or error for every image whose src was set, calls
\* back every toBlob, and ends every read
BrowserAnswers ==
    \A i \in 1..MaxCalls :
        /\ WF_vars(ImgError(i) \/ \E width \in ImageSizes, height \in ImageSizes :
                                      ImgLoad(i, width, height))
        /\ WF_vars(\E blob \in BOOLEAN : ToBlob(i, blob))
        /\ WF_vars(\E ok \in BOOLEAN : ReaderEnd(i, ok))

SpecProcessor == InitProcessor /\ [][NextProcessor]_vars /\ BrowserAnswers

---------------------------------------------------------------------------
(* Properties *)

Min(x, y) == IF x < y THEN x ELSE y
Max(x, y) == IF x > y THEN x ELSE y
Range(f) == {f[k] : k \in DOMAIN f}

\* the last step settled an operation of this name, resolved
Resolved(name) ==
    /\ last.ev = "settle"
    /\ last.op.name = name
    /\ last.outcome = "resolved"

\* the UploadDate values of a sequence of records
DatesOf(items) == [k \in 1..Len(items) |-> items[k].UploadDate]

\* C1: once set(c, r) has resolved, the get(c, r.id) called in the very next step
\* returns r, whatever was called or cached before and whatever gets are in flight
\* (no other write of that key being in flight when the get is called).
C1_ReadAfterWrite ==
    (Resolved("get") /\ last.op.after # Null) => last.value = last.op.after

\* C2: a get on a key whose cache entry was filled at time t returns the value the
\* entry was filled with and issues no store read while now < t + CACHE_TTL, and
\* issues a store read once now >= t + CACHE_TTL.
C2_CacheWindow ==
    [][\A c \in AllCollections, id \in AllIds :
          (GetCall(c, id) /\ CacheKey(c, id) \in DOMAIN populatedAt) =>
             LET filled == populatedAt[CacheKey(c, id)] IN
             IF now < filled.at + CACHE_TTL
             THEN /\ UNCHANGED <<opening, pending>>
                  /\ last'.ev = "settle"
                  /\ last'.outcome = "resolved"
                  /\ last'.value = filled.value
             ELSE /\ pending' = Append(pending, GetOp(c, id))
                  /\ last'.ev = "call"]_vars

\* C2 witness: a get served from the cache in the last millisecond of the window
C2_Witness ==
    /\ Resolved("get")
    /\ CacheKey("Mosaic", "a") \in DOMAIN populatedAt
    /\ now = populatedAt[CacheKey("Mosaic", "a")].at + CACHE_TTL - 1
    /\ last.value = populatedAt[CacheKey("Mosaic", "a")].value

\* C3: clearCache(c) removes the cache entries of collection c and leaves every
\* entry of every other collection as it was; clearCache() removes all entries.
C3_ClearCacheFrame ==
    [][\A c \in AllCollections \cup {""} :
          ClearCache(c) =>
             \A c2 \in AllCollections, id \in AllIds :
                LET k == CacheKey(c2, id) IN
                IF c = "" \/ c2 = c
                THEN k \notin DOMAIN memoryCache'
                ELSE /\ (k \in DOMAIN memoryCache') = (k \in DOMAIN memoryCache)
                     /\ k \in DOMAIN memoryCache => memoryCache'[k] = memoryCache[k]]_vars

\* C3 witness: clearCache("Mosaic") removed an entry and the MosaicTemplate entry
\* is still a hit
C3_Witness ==
    /\ last.ev = "clearCache"
    /\ last.c = "Mosaic"
    /\ last.removed >= 1
    /\ CacheHit(CacheKey("MosaicTemplate", "a"))

\* C4: for take >= 1 the records getAllPagedByDate returns are in non-increasing
\* UploadDate order, with the index and without it.
C4_PagedNonIncreasing ==
    (Resolved("getAllPagedByDate") /\ last.op.take >= 1) =>
        \A k \in 1..(Len(last.value.items) - 1) :
            last.value.items[k].UploadDate >= last.value.items[k + 1].UploadDate

\* the records ranked skip+1 .. skip+take of a collection, newest first
NewestFirstPage(collectionName, skip, take) ==
    LET all == IndexCursorPrev(collectionName) IN
    SubSeq(all, skip + 1, Min(skip + take, Len(all)))

\* C5: without the index, getAllPagedByDate returns what the index path returns:
\* the records ranked skip .. skip+take-1 newest first (compared by UploadDate, so
\* that records of one date may come in either order).
C5_FallbackIsNewestFirstPage ==
    (Resolved("getAllPagedByDate") /\ last.op.take >= 1 /\ last.op.c \notin indexNames) =>
        DatesOf(last.value.items) = DatesOf(NewestFirstPage(last.op.c, last.op.skip, last.op.take))

\* C6: getBulk returns at most as many entries as there are distinct ids requested
\* (counting only the entries that are records, so that an undefined entry, which
\* C7 is about, does not count against it).
C6_BulkAtMostDistinctIds ==
    Resolved("getBulk") =>
        Len(SelectSeq(last.value.items, Truthy)) <= Cardinality(Range(last.op.ids))

\* C7: every entry getBulk returns is the stored record of a requested id; there
\* is no undefined or null entry.
C7_BulkOnlyExistingRecords ==
    (Resolved("getBulk") /\ IsArray(last.op.ids)) =>
        \A k \in 1..Len(last.value.items) :
            /\ Truthy(last.value.items[k])
            /\ \E id \in Range(last.op.ids) : MapGet(store[last.op.c], id) = last.value.items[k]

\* C8: getBulk with an empty or non-array ids resolves to [] in the call itself:
\* no open request, no transaction, no store request, no change of cache or store.
C8_EmptyBulkTouchesNothing ==
    [][\A c \in AllCollections, ids \in {<< >>, NotArray} :
          GetBulkCall(c, ids) =>
             /\ UNCHANGED <<connVars, opening, pending, cacheVars, store>>
             /\ last'.ev = "settle"
             /\ last'.outcome = "resolved"
             /\ last'.value = Array(<< >>)]_vars

\* C8 witness: getBulk of a non-array has resolved to [] and no connection was
\* ever opened or requested
C8_Witness ==
    /\ Resolved("getBulk")
    /\ last.op.ids = NotArray
    /\ last.value = Array(<< >>)
    /\ connSeq = 0
    /\ opening = << >>
    /\ pending = << >>

\* C9: count never rejects: it resolves to 0 on an error and to the number of
\* records otherwise.
C9_CountNeverRejects ==
    (last.ev = "settle" /\ last.op.name = "count") =>
        /\ last.outcome = "resolved"
        /\ \/ last.value = Num(0)
           \/ /\ last.op.c \in objectStoreNames
              /\ last.value = Num(Cardinality(Records(last.op.c)))

\* the record at position p (from 0) of the forward iteration of a collection
RecordAt(collectionName, p) ==
    CHOOSE r \in Records(collectionName) :
        Cardinality({q \in Records(collectionName) : IdRank(q.id) < IdRank(r.id)}) = p

\* C10: getRange returns exactly the records at positions skip .. skip+take-1 of
\* the forward iteration: none when skip >= the number of records, none when
\* take = 0, never more than take.
C10_GetRangeWindow ==
    Resolved("getRange") =>
        LET n == Cardinality(Records(last.op.c))
            skip == last.op.skip
            take == last.op.take
            len == Max(0, Min(take, n - skip))
        IN
        /\ Len(last.value.items) = len
        /\ \A k \in 1..len : last.value.items[k] = RecordAt(last.op.c, skip + k - 1)
        /\ skip >= n => last.value = Array(<< >>)
        /\ take = 0 => last.value = Array(<< >>)
        /\ Len(last.value.items) <= take

\* C10 witness: a window inside a collection of three records
C10_Witness ==
    /\ Resolved("getRange")
    /\ Cardinality(Records(last.op.c)) = 3
    /\ last.op.skip = 1
    /\ last.op.take = 1
    /\ Len(last.value.items) = 1

C12_SetResolvesOnComplete ==
    /\ Resolved("set") =>
          /\ last.op.acked
          /\ MapGet(store[last.op.c], last.op.value.id) = last.op.value
    /\ (last.ev = "settle" /\ last.op.name = "set" /\ ~last.op.acked) =>
          last.outcome = "rejected"

\* C12 witness: the second write of the key has resolved true, its put acknowledged
\* and its record in the store
C12_Witness ==
    /\ Resolved("set")
    /\ last.op.acked
    /\ last.op.value.v = 2
    /\ MapGet(store["Mosaic"], "a") = last.op.value

\* C13: deleteRecord never resolves before the transaction that carries the
\* delete has completed.
C13_DeleteResolvesOnComplete ==
    Resolved("deleteRecord") =>
        \A j \in 1..Len(pending) :
            ~(pending[j].name = "deleteRecord" /\ pending[j].done)

\* the next state holds the rejection of a call, and nothing else has changed: no
\* connection or open request, no transaction, the store and the cache as before
RejectedUntouched ==
    /\ UNCHANGED <<connVars, opening, pending, cacheVars, store>>
    /\ last'.ev = "settle"
    /\ last'.outcome = "rejected"
    /\ last'.value \in {Error("Missing value or collection name"),
                        Error("Value must have an id property"),
                        Error("Missing collection name or id"),
                        Error("setImageBlob requires id and data")}

\* C14: set, get and setImageBlob called with malformed arguments reject with an
\* error of their own making, and open no connection, start no transaction and
\* change neither the store nor the cache.
C14_MalformedRejectedFirst ==
    [][/\ \A a \in BadSets : SetCall(a[1], a[2]) => RejectedUntouched
       /\ \A a \in BadGets : GetCall(a[1], a[2]) => RejectedUntouched
       /\ \A a \in BadBlobs : SetImageBlobCall(a[1], a[2]) => RejectedUntouched]_vars

\* C14 witness: setImageBlob without data has been rejected while another
\* operation waits for the connection, and none was opened for it
C14_Witness ==
    /\ last.ev = "settle"
    /\ last.op.name = "setImageBlob"
    /\ last.op.value.blob = Null
    /\ last.outcome = "rejected"
    /\ Len(opening) = 1
    /\ opening[1].name = "get"
    /\ dbConnection = 0

\* C15: the connection is one shared handle: at most one connection is open, and
\* an open connection is the memoized one.
C15_SingleConnection ==
    /\ Cardinality(openConns) <= 1
    /\ \A db \in openConns : db = dbConnection

\* C16: whenever initialize() resolves, the five required collections exist and
\* ImageData carries the UploadDate index (stated for the calls whose checkRequest
\* succeeded, whatever the database was like).
C16_InitializeEnsuresSchema ==
    (Resolved("initialize") /\ last.op.phase # "create") => SchemaComplete

\* C17: initialize() leaves the version unchanged when nothing required was
\* missing at the call, raises it by one at most (a database that did not exist
\* counting from version 1, at which it is created), and two successive calls
\* raise it at most once between them.
C17_VersionRaisedAtMostOnce ==
    Resolved("initialize") =>
        /\ version - Max(last.op.from, 1) \in {0, 1}
        /\ last.op.complete => version = last.op.from
        /\ version - Max(last.op.base, 1) \in {0, 1}

\* C17 witness: the second of two successive calls has resolved at the version the
\* first one had raised the database to
C17_Witness ==
    /\ Resolved("initialize")
    /\ last.op.base >= 1
    /\ last.op.from = last.op.base + 1
    /\ version = last.op.from

\* the next state holds the rejection, with the store's error, of the operation
\* whose open request failed, and no new open request
RejectedNoRetry ==
    /\ last'.ev = "settle"
    /\ last'.outcome = "rejected"
    /\ last'.value = Error("OpenError")
    /\ opening' = Tail(opening)

\* C18: when an open or upgrade request of initialize() or of getDatabase() fails,
\* the operation that waits for it rejects with the store's error and no further
\* open request is issued.
C18_OpenFailureRejects ==
    [][(\/ InitializeCheck("error")
        \/ InitializeUpgrade("error")
        \/ InitializeCreate("error")
        \/ InitializeGetDatabase("error")
        \/ OpenSettle("error")) => RejectedNoRetry]_vars

\* C19: closeDatabase() closes the memoized connection and clears the handle, and
\* changes nothing when there is none; the handle never names a closed
\* connection, so an operation called after a close requests a new open.
C19_CloseClearsHandle ==
    [][/\ CloseDatabase =>
             /\ dbConnection' = 0
             /\ openConns' = openConns \ {dbConnection}
             /\ dbConnection = 0 => UNCHANGED <<connVars, opening, pending, cacheVars, store>>
       /\ dbConnection' # 0 => dbConnection' \in openConns'
       /\ (dbConnection = 0 /\ CountCall("Mosaic")) =>
             opening' = Append(opening, CountOp("Mosaic"))]_vars

\* C19 witness: after the close of the first connection an operation has opened
\* a second one, which is the memoized and the only open one
C19_Witness ==
    /\ connSeq = 2
    /\ dbConnection = 2
    /\ openConns = {2}
    /\ last.ev = "call"

\* the position in missingIds of the fetch that failed first, given the results
\* of all fetches but the last (the last position when none of those failed)
FirstFailed(o) ==
    IF o.failed
    THEN CHOOSE k \in 1..Len(o.dbResults) :
            /\ o.dbResults[k] = Null
            /\ \A j \in 1..(k - 1) : o.dbResults[j] # Null
    ELSE Len(o.missingIds)

\* C20: getBulk never rejects; when it has fetched from the store and a fetch
\* failed, the record of every other id that has one is in what it returns.
C20_BulkNeverRejects ==
    (last.ev = "settle" /\ last.op.name = "getBulk") =>
        /\ last.outcome = "resolved"
        /\ "dbResults" \in DOMAIN last.op =>
              \A k \in (1..Len(last.op.missingIds)) \ {FirstFailed(last.op)} :
                 LET id == last.op.missingIds[k] IN
                 HasKey(last.op.c, id) =>
                    store[last.op.c][id] \in Range(last.value.items)

\* C21: every accessor operation, once issued, eventually settles: a call that
\* returned a pending promise is followed by the settling of a promise, whatever
\* the store answers
C21_IssuedSettles == (last.ev = "call") ~> (last.ev = "settle")

\* C22: a cache entry appears or changes only in the success handler of the store
\* read of a get or of a getBulk, and disappears only in clearCache; every other
\* step (set, deleteRecord, getRange, getAll, getAllPagedByDate, count,
\* hasRecord, closeDatabase, the blob helpers, failed reads) leaves the cache
\* mapping as it was
C22_CacheFrame ==
    [][/\ (\E k \in DOMAIN memoryCache' :
              k \notin DOMAIN memoryCache \/ memoryCache'[k] # memoryCache[k])
          => (\/ \E i \in 1..MaxPending : GetSettle(i, "success")
              \/ \E i \in 1..MaxPending : GetBulkRequest(i, "success"))
       /\ (DOMAIN memoryCache \ DOMAIN memoryCache' # {})
          => \E c \in {"", "Mosaic"} : ClearCache(c)]_vars

\* a blob was copied while the cache held an entry
C22_Witness ==
    /\ last.ev = "settle"
    /\ last.op.name = "copyIndexedDbFile"
    /\ last.outcome = "resolved"
    /\ last.value = True
    /\ DOMAIN memoryCache # {}

\* C23: once copyIndexedDbFile(srcId, destId) has resolved true and its
\* transaction has ended, the record under destId carries the blob and mimeType
\* of the source record
C23_CopyMakesRecord ==
    (/\ last.ev \in {"complete", "abort"}
     /\ "op" \in DOMAIN last
     /\ last.op.name = "copyIndexedDbFile")
    => LET records == store["IndexedDbFile"]
           o == last.op
       IN /\ o.destId \in DOMAIN records
          /\ o.srcId \in DOMAIN records
          /\ Field(records[o.destId], "blob") = Field(records[o.srcId], "blob")
          /\ Field(records[o.destId], "mimeType") = Field(records[o.srcId], "mimeType")

\* C24: no step releases an object URL; a getImageObjectUrl that resolves to a
\* handle has created exactly that one new URL; it resolves null exactly for a
\* falsy id, a missing record or a record without blob; and a call that resolved
\* null or was rejected, like every other step, creates no URL
C24_HandleAcquiredOnGet ==
    [][/\ objectUrls \subseteq objectUrls'
       /\ IF /\ last'.ev = "settle"
             /\ last'.op.name = "getImageObjectUrl"
             /\ last'.outcome = "resolved"
          THEN LET id == last'.op.id
                   absent == id = "" \/ ~HasBlob(MapGet(store["IndexedDbFile"], id))
               IN /\ (last'.value = Null) <=> absent
                  /\ IF absent
                     THEN objectUrls' = objectUrls
                     ELSE /\ last'.value.url \notin objectUrls
                          /\ objectUrls' = objectUrls \cup {last'.value.url}
          ELSE objectUrls' = objectUrls]_vars

\* the same blob was asked for twice: the second call made a second URL
C24_Witness ==
    /\ last.ev = "settle"
    /\ last.op.name = "getImageObjectUrl"
    /\ last.outcome = "resolved"
    /\ last.value # Null
    /\ Cardinality(objectUrls) = 2

\* C25: a cache hit of get or getBulk leaves the entry as it is; every entry
\* expires at the time of the store read that filled it plus CACHE_TTL and holds
\* the value of that read; so a value answered from the cache is the value of a
\* store read less than CACHE_TTL ago, however many hits lie in between
C25_NoSlidingExpiry ==
    [][/\ \A k \in DOMAIN memoryCache' :
             /\ k \in DOMAIN populatedAt'
             /\ memoryCache'[k].expires = populatedAt'[k].at + CACHE_TTL
             /\ memoryCache'[k].value = populatedAt'[k].value
       /\ \A c \in AllCollections, id \in AllIds :
             (GetCall(c, id) /\ CacheHit(CacheKey(c, id))) =>
                /\ memoryCache' = memoryCache
                /\ last'.ev = "settle"
                /\ last'.value = populatedAt[CacheKey(c, id)].value
                /\ now < populatedAt[CacheKey(c, id)].at + CACHE_TTL
       /\ (GetBulkCall("Mosaic", <<"a">>) /\ CacheHit(CacheKey("Mosaic", "a"))) =>
                /\ memoryCache' = memoryCache
                /\ last'.ev = "settle"
                /\ last'.value = Array(<<populatedAt[CacheKey("Mosaic", "a")].value>>)
                /\ now < populatedAt[CacheKey("Mosaic", "a")].at + CACHE_TTL]_vars

\* a get answered from the cache some time after the store read that filled the
\* entry, whose expiry is still that of the store read
C25_Witness ==
    /\ Resolved("get")
    /\ opening = << >>
    /\ pending = << >>
    /\ CacheKey("Mosaic", "a") \in DOMAIN memoryCache
    /\ last.value = memoryCache[CacheKey("Mosaic", "a")].value
    /\ now > populatedAt[CacheKey("Mosaic", "a")].at
    /\ memoryCache[CacheKey("Mosaic", "a")].expires < now + CACHE_TTL

\* C26: the array getBulk resolves with holds the cached value of every
\* requested id that was an unexpired cache hit when getBulk was called, also
\* when the open request, the creation of the transaction or a store read fails
C26_BulkKeepsCacheHits ==
    (Resolved("getBulk") /\ IsArray(last.op.ids)) =>
        \A k \in 1..Len(last.op.hits) :
            \E j \in 1..Len(last.value.items) : last.value.items[j] = last.op.hits[k]

RECURSIVE IsSubSeq(_, _)
\* s is t with some elements left out
IsSubSeq(s, t) ==
    IF s = << >> THEN TRUE
    ELSE IF t = << >> THEN FALSE
    ELSE IF Head(s) = Head(t) THEN IsSubSeq(Tail(s), Tail(t))
    ELSE IsSubSeq(s, Tail(t))

\* the requested ids that were no cache hit at call time, in request order
MissedAtCall(o) ==
    SelectSeq(o.ids, LAMBDA id : \A k \in 1..Len(o.hits) : o.hits[k].id # id)

\* the cache hits in request order, then the stored records of the missed ids in
\* request order
HitsThenMisses(o) ==
    o.hits \o [k \in 1..Len(MissedAtCall(o)) |-> MapGet(store[o.c], MissedAtCall(o)[k])]

\* C27: whatever the order in which the sub-fetches of a getBulk end, the array
\* it resolves with is the cache hits in request order followed by the fetched
\* records in the request order of the missed ids (a failed fetch leaves its
\* record out)
C27_BulkOrderFixed ==
    (Resolved("getBulk") /\ IsArray(last.op.ids) /\ Len(last.op.ids) > 0) =>
        /\ IsSubSeq(last.value.items, HitsThenMisses(last.op))
        /\ ("dbResults" \in DOMAIN last.op /\ ~last.op.failed
               /\ Len(last.value.items) = Len(last.op.ids))
           => last.value.items = HitsThenMisses(last.op)

\* getBulk(['c','a','b']) with a cached: the fetch of b ended before the fetch of
\* c, and the array is a, c, b
C27_Witness ==
    /\ Resolved("getBulk")
    /\ last.op.ids = <<"c", "a", "b">>
    /\ last.op.hits = <<Rec("a", 1, 1)>>
    /\ "dbResults" \in DOMAIN last.op
    /\ last.op.dbResults[1] = Unsettled
    /\ last.op.dbResults[2] = Rec("b", 1, 1)
    /\ last.value = Array(<<Rec("a", 1, 1), Rec("c", 1, 1), Rec("b", 1, 1)>>)

\* C28: once deleteRecord('Mosaic', 'a') has resolved and its transaction has
\* committed (the store of this specification starts with the record and nothing
\* else removes or writes it), a get of the key answers with no record and a
\* getBulk of the key with no record for it
C28_GetAfterDelete ==
    [][("a" \notin DOMAIN store["Mosaic"] /\ Idle /\ last'.ev = "settle") =>
          /\ GetCall("Mosaic", "a") => ~Truthy(last'.value)
          /\ GetBulkCall("Mosaic", <<"a">>) => last'.value = Array(<< >>)]_vars

\* C29: a get that resolves with a record resolves with a record of the key it
\* asked for, never with the record cached for another (collection, id)
C29_CacheKeysInjective ==
    (Resolved("get") /\ Truthy(last.value)) => last.value.id = last.op.id

\* C30: every cache entry holds a record, never undefined or null; the store
\* read of a get or of a getBulk that finds no record leaves the cache as it
\* was; and a get that reads the store right after a set of its key has resolved
\* answers with the record that set wrote
C30_NoAbsentEntries ==
    [][/\ \A k \in DOMAIN memoryCache' : Truthy(memoryCache'[k].value)
       /\ \A i \in 1..Len(pending) :
             (/\ pending[i].name = "get"
              /\ GetSettle(i, "success")
              /\ ~Truthy(MapGet(store[pending[i].c], pending[i].id)))
             => (memoryCache' = memoryCache /\ last'.value = Undefined)
       /\ \A i \in 1..Len(pending) :
             (/\ pending[i].name = "getBulk"
              /\ GetBulkRequest(i, "success")
              /\ ~Truthy(MapGet(store[pending[i].c],
                                pending[i].missingIds[NextFetch(pending[i])])))
             => memoryCache' = memoryCache
       /\ \A i \in 1..Len(pending) :
             (/\ pending[i].name = "get"
              /\ GetSettle(i, "success")
              /\ pending[i].after # Null)
             => last'.value = pending[i].after]_vars

\* a get read the store and found nothing, and the cache holds no entry for its key
C30_Witness ==
    /\ Resolved("get")
    /\ last.value = Undefined
    /\ CacheKey(last.op.c, last.op.id) \notin DOMAIN memoryCache

\* C31: getAllPagedByDate(c, skip, take) resolves with at most take records for
\* every take >= 0 (none for take = 0), with the index and without it
C31_PagedAtMostTake ==
    Resolved("getAllPagedByDate") => Len(last.value.items) <= last.op.take

\* C32: the canvas zoom scale is a number within [0.1, 10] after any sequence of
\* wheel, pinch, zoomIn, zoomOut, applyScale and reset actions
C32_ScaleWithinLimits ==
    /\ scale # NaN
    /\ ~Less(scale, Div(1, 10))
    /\ ~Less(Div(10, 1), scale)

\* C33 as stated: io.observe(img) is called at most once for each image over any
\* number of observe() calls, and when an image has intersected its src is set
\* from its data-src, it has no data-src any more, it is unobserved, and it is
\* never observed again
C33_LazyOnceAlwaysLoads ==
    [][/\ \A img \in Images : observeCalls'[img] <= 1
       /\ \A img \in intersected :
              img \notin ioTargets' /\ observeCalls'[img] = observeCalls[img]
       /\ last'.ev = "intersect" =>
              \A img \in Intersecting(last'.entries) :
                  /\ img \notin ioTargets'
                  /\ dataSrc'[img] = Null
                  /\ dataSrc[img] # Null => imgSrc'[img] = dataSrc[img]]_vars

\* C33, amended: io.observe(img) is called at most once for each image over any
\* number of observe() calls; when an image has intersected it is unobserved and
\* never observed again, and if its data-src was a non-empty string its src is
\* set from it and the data-src is removed, while an image whose data-src is
\* missing or empty keeps its src and its data-src
C33_LazyOnce ==
    [][/\ \A img \in Images : observeCalls'[img] <= 1
       /\ \A img \in intersected :
              img \notin ioTargets' /\ observeCalls'[img] = observeCalls[img]
       /\ last'.ev = "intersect" =>
              \A img \in Intersecting(last'.entries) :
                  /\ img \notin ioTargets'
                  /\ IF AttrTruthy(dataSrc[img])
                     THEN imgSrc'[img] = dataSrc[img] /\ dataSrc'[img] = Null
                     ELSE imgSrc'[img] = imgSrc[img] /\ dataSrc'[img] = dataSrc[img]]_vars

\* after two observe() calls an image that had a data-src has intersected: it
\* was registered once, is loaded, has lost its data-src and is not observed
C33_Witness ==
    /\ lazyCalls >= 2
    /\ \E img \in intersected :
           /\ last.ev = "intersect" /\ img \in Intersecting(last.entries)
           /\ AttrTruthy(imgSrc[img])
           /\ dataSrc[img] = Null
           /\ observeCalls[img] = 1
           /\ img \notin ioTargets

\* C34: every promise an imageProcessor operation returned (constrainProportions,
\* resizeImage, generateThumbnails, generateImageSignature) is eventually
\* resolved or rejected, whether the image loads or fails to load
C34_ProcessorSettles ==
    \A i \in 1..MaxCalls :
        (Len(processor) >= i) ~> (Len(processor) >= i /\ processor[i].state # "pending")

====
